---------------------------- MODULE Spec2Model ----------------------------
(***************************************************************************)
(* Model of ai-midimacros: the configuration pipeline (parse, validate,    *)
(* compile) and the hot-reload runtime (debouncing watch task, AppState,   *)
(* reload events, listener task, fan-out to MidiManager / ConsoleManager / *)
(* Executor, macro execution).                                             *)
(*                                                                         *)
(* Conventions.  Option<T> is a sequence: <<>> is None, <<x>> is Some(x).  *)
(* A HashMap is a function; its iteration order is not fixed by the code   *)
(* (std RandomState), so every iteration takes an order as a parameter and *)
(* the actions choose it with \E.  Source texts are the names of a small   *)
(* catalogue; parse_config_str and xxh3_64 are tables over that catalogue. *)
(* CacheHeader.generated_at (wall clock) and CompiledCache.bytes are not   *)
(* modelled.  Fields named gen are history stamps (the number of the       *)
(* reload attempt that produced the value; 0 is AppState::initialize).     *)
(***************************************************************************)
EXTENDS Integers, Sequences, FiniteSets, TLC

\* ------------------------------------------------------------------ bounds

\* Total filesystem notifications the environment produces in one behaviour.
MaxFsEvents == 2
\* Total MIDI note-on events the hardware listener forwards.
MaxMidi == 1
\* Total RuntimeManager::trigger_midi calls made by the embedding program.
MaxCalls == 1
\* Total rewrites of the watched file in a behaviour that only rewrites it.
MaxTouches == 17
\* Total MIDI events of a burst that arrives while a macro is executing.
MaxFlood == 33

\* ------------------------------------------------------- program constants

\* watch.rs: let debounce = Duration::from_millis(250)
Debounce == 250
\* cache_format: pub const CACHE_VERSION: u32 = 1
CACHE_VERSION == 1
\* validation.rs: trigger.number > 127
MaxNote == 127
\* watch.rs: broadcast::channel(16), the capacity of the ReloadEvent channel
ReloadCapacity == 16
\* runtime.rs: broadcast::channel(32), the capacity of the MidiEvent channel
MidiCapacity == 32
\* Granularity of the model's clock in milliseconds (one Tick).
TickMs == 125

\* ------------------------------------------------------------ option type

None == <<>>
Some(x) == <<x>>
IsSome(o) == Len(o) = 1
Unwrap(o) == o[1]

\* All orders in which the keys S of a HashMap can be iterated.
Perms(S) ==
  {s \in [1..Cardinality(S) -> S] : \A x \in S : \E i \in 1..Cardinality(S) : s[i] = x}

\* --------------------------------------------------------- schema (schema.rs)

Keystroke(keys) == [type |-> "keystroke", keys |-> keys, ms |-> 0]
Pause(ms) == [type |-> "pause", keys |-> <<>>, ms |-> ms]

\* schema::Macro (description and tags carry no behaviour and are left out).
Macro(status, trigger, steps) == [status |-> status, trigger |-> trigger, steps |-> steps]

\* schema::Config.  devices and scripts are maps like macros.
Config(version, devices, macros, scripts) ==
  [version |-> version, devices |-> devices, macros |-> macros, scripts |-> scripts]

EmptyMap == [x \in {} |-> 0]

\* ------------------------------------------------- source texts (catalogue)

\* One Ready macro and one Draft macro (app.rs tests, sample_config).
TextDraft == "draft"
\* Both macros Ready, each with trigger and steps (app.rs tests, new_config).
TextReady == "ready"
\* Parses, but a Ready macro has a keystroke step without keys: an Error.
TextInvalid == "invalid"
\* Not a YAML document of the schema: parse_config_str fails.
TextGarbage == "garbage"
\* The watched path does not exist: fs::read_to_string fails.
NoFile == "missing"

Texts == {TextDraft, TextReady, TextInvalid, TextGarbage}
FileStates == Texts \cup {NoFile}

ConfigDraft ==
  Config(1, EmptyMap,
         [id \in {"a", "b"} |->
            IF id = "a" THEN Macro("Ready", Some(60), <<Keystroke(<<"B">>), Pause(10)>>)
                        ELSE Macro("Draft", None, <<Keystroke(<<"X">>)>>)],
         EmptyMap)

ConfigReady ==
  Config(1, EmptyMap,
         [id \in {"a", "b"} |->
            IF id = "a" THEN Macro("Ready", Some(60), <<Keystroke(<<"Ctrl", "B">>), Pause(20)>>)
                        ELSE Macro("Ready", Some(61), <<Keystroke(<<"C">>), Keystroke(<<"D">>)>>)],
         EmptyMap)

ConfigInvalid ==
  Config(1, EmptyMap,
         [id \in {"a"} |-> Macro("Ready", Some(60), <<Keystroke(<<>>)>>)],
         EmptyMap)

\* schema::Widget, schema::Page and schema::Device as the validator reads them.
Widget(id, action) == [id |-> id, tap_behavior |-> None, action |-> action]
Page(name, widgets) == [name |-> name, widgets |-> widgets]
Device(hardware_id, pages) == [hardware_id |-> hardware_id, pages |-> pages]

\* The macros a generated document is made of: ready, draft and with the status
\* left out, with and without trigger, a trigger out of range, a pause of 0 ms,
\* a keystroke without keys.
GenMacros ==
  {Macro("Ready", Some(60), <<Keystroke(<<"K">>)>>),
   Macro("Ready", Some(61), <<Keystroke(<<"L">>), Pause(10)>>),
   Macro("Ready", None, <<Pause(10)>>),
   Macro("Ready", Some(200), <<Keystroke(<<"K">>)>>),
   Macro("Ready", Some(60), <<Pause(0)>>),
   Macro("Draft", Some(200), <<Keystroke(<<>>)>>),
   Macro("Draft", None, <<Keystroke(<<"X">>)>>),
   Macro("Omitted", Some(61), <<Keystroke(<<"O">>)>>)}

\* The device maps of a generated document: none; one device whose widget runs
\* macro "a"; two devices with one hardware id; one device without hardware id.
GenDevices ==
  {EmptyMap,
   [id \in {"alpha"} |->
      Device(Some("usb:1"), <<Page("main", <<Widget("w", Some([type |-> "macro", ref |-> "a"]))>>)>>)],
   [id \in {"alpha", "beta"} |->
      IF id = "alpha" THEN Device(Some(" usb:dup "), <<>>) ELSE Device(Some("usb:dup"), <<>>)],
   [id \in {"beta"} |-> Device(None, <<>>)]}

\* Documents about macros: every choice of version, devices and macros "a", "b".
MacroDocs ==
  {Config(v, d, m, EmptyMap) :
     v \in {1, 2}, d \in GenDevices,
     m \in UNION {[ids -> GenMacros] : ids \in SUBSET {"a", "b"}}}

\* The device maps of a document about layouts: three devices declared with
\* pages, widgets, tap behaviours and actions on macro "a" and script "s"; one
\* page with a widget id used twice; a blank hardware id; two devices with the
\* same hardware id.
LayoutDevices ==
  {[id \in {"gamma", "alpha", "beta"} |->
      CASE id = "alpha" ->
             Device(Some("usb:1"),
                    <<Page("main",
                           <<[Widget("w1", Some([type |-> "macro", ref |-> "a"]))
                                EXCEPT !.tap_behavior = Some("hold")],
                             Widget("w2", Some([type |-> "script", ref |-> "s"]))>>),
                      Page("alt", <<Widget("w1", None)>>)>>)
        [] id = "beta" -> Device(Some("usb:2"), <<>>)
        [] OTHER -> Device(Some("usb:3"), <<Page("empty", <<>>)>>)],
   [id \in {"alpha"} |->
      Device(Some("usb:1"), <<Page("main", <<Widget("w1", None), Widget("w1", None)>>)>>)],
   [id \in {"alpha"} |-> Device(Some(" "), <<>>)],
   [id \in {"alpha", "beta"} |-> Device(Some("usb:dup"), <<>>)]}

\* The script maps of a document about layouts: none, a script, a blank script.
LayoutScripts == {EmptyMap, [id \in {"s"} |-> "run"], [id \in {"s"} |-> " "]}

\* The macro maps of a document about layouts: none, "a" Ready, "a" Draft.
LayoutMacros ==
  {EmptyMap,
   [id \in {"a"} |-> Macro("Ready", Some(60), <<Keystroke(<<"K">>)>>)],
   [id \in {"a"} |-> Macro("Draft", None, <<Keystroke(<<"X">>)>>)]}

\* Documents about layouts.
LayoutDocs ==
  {Config(1, d, m, sc) : d \in LayoutDevices, m \in LayoutMacros, sc \in LayoutScripts}

\* Documents about triggers: three macros, all three or two of them on note 60.
TriggerDocs ==
  {Config(1, EmptyMap,
          [id \in {"a", "b", "c"} |->
             CASE id = "a" -> Macro("Ready", Some(60), <<Keystroke(<<"K">>)>>)
               [] id = "b" -> Macro("Draft", Some(n), <<Keystroke(<<"X">>)>>)
               [] OTHER -> Macro("Ready", Some(60), <<Pause(10)>>)],
          EmptyMap) : n \in {60, 61}}

\* Documents about steps: macro "a", Ready or Draft, with a blank key, a pause
\* of 0 ms or sound steps, next to a sound Ready macro "b".
StepDocs ==
  {Config(1, EmptyMap,
          [id \in {"a", "b"} |->
             IF id = "a" THEN Macro(st, Some(60), steps)
                         ELSE Macro("Ready", Some(61), <<Keystroke(<<"L">>), Pause(10)>>)],
          EmptyMap) :
     st \in {"Ready", "Draft"},
     steps \in {<<Keystroke(<<"K", " ">>)>>,
                <<Keystroke(<<"K">>), Pause(0)>>,
                <<Keystroke(<<"K", "J">>), Pause(5)>>}}

\* The generated documents.
GenDocs == MacroDocs \cup LayoutDocs \cup TriggerDocs \cup StepDocs

\* The YAML text of a generated document.
Render(config) == ToString(config)

GenTexts == {Render(d) : d \in GenDocs}

\* The document a generated text is the rendering of.
DocOf(src) == CHOOSE d \in GenDocs : Render(d) = src

\* serde's #[serde(default = "default_status")]: a macro without status is Draft.
default_status == "Draft"

\* What serde_yaml makes of a document: the Config, with the defaults filled in.
Deserialize(doc) ==
  [doc EXCEPT !.macros =
     [id \in DOMAIN doc.macros |->
        IF doc.macros[id].status = "Omitted"
          THEN [doc.macros[id] EXCEPT !.status = default_status]
          ELSE doc.macros[id]]]

\* What parse_config_str reads back from the text of a generated document.
ParseTable == [src \in GenTexts |-> Deserialize(DocOf(src))]

\* config_validator::parse_config_str: Ok(config) as Some, Err(Parse) as None.
parse_config_str(src) ==
  CASE src = TextDraft -> Some(ConfigDraft)
    [] src = TextReady -> Some(ConfigReady)
    [] src = TextInvalid -> Some(ConfigInvalid)
    [] src \in GenTexts -> Some(ParseTable[src])
    [] OTHER -> None

\* xxh3_64 over the source bytes: distinct texts of the catalogue hash apart.
xxh3_64(src) ==
  CASE src = TextDraft -> 11
    [] src = TextReady -> 22
    [] src = TextInvalid -> 33
    [] OTHER -> 44

\* fs::read_to_string: Ok(content) as Some, Err(io) as None.
read_to_string(f) == IF f = NoFile THEN None ELSE Some(f)

\* ------------------------------------------------ validator (validation.rs)

\* str::trim over the strings the model uses.
Trim(s) ==
  CASE s = " " -> ""
    [] s = " usb:dup " -> "usb:dup"
    [] OTHER -> s

\* ValidationIssue::new; location (a substring search over the text) is left out.
ValidationIssue(path, message, severity) ==
  [path |-> path, message |-> message, severity |-> severity]

\* Variant: every structural diagnostic is downgraded, also for a Ready macro.
AdjustSeverityAlways(status, severity) == "Warning"

\* Variant: the severity is never adjusted.
AdjustSeverityNever(status, severity) == severity

adjust_severity_for_macro(status, severity) ==
  IF status = "Draft" /\ severity = "Error" THEN "Warning" ELSE severity

\* Map insert: HashMap::insert(k, v).
MapInsert(m, k, v) == [x \in DOMAIN m \cup {k} |-> IF x = k THEN v ELSE m[x]]

\* validate_config, lines 48-54: the schema version.
VersionIssues(config) ==
  IF config.version # 1
    THEN <<ValidationIssue(<<"version">>, <<"Unsupported schema version", ToString(config.version)>>, "Error")>>
    ELSE <<>>

\* Variant: a reference to a macro that is not defined goes unreported.
ActionIssuesMissingUnreported(config, widget_path, widget) ==
  IF ~IsSome(widget.action) THEN <<>>
  ELSE LET action == Unwrap(widget.action) IN
    IF action.type = "macro"
      THEN IF action.ref \in DOMAIN config.macros /\ config.macros[action.ref].status # "Ready"
             THEN <<ValidationIssue(widget_path,
                      <<"References macro that is not marked ready and will not be compiled",
                        action.ref>>, "Warning")>>
             ELSE <<>>
      ELSE IF action.ref \notin DOMAIN config.scripts
             THEN <<ValidationIssue(widget_path, <<"References undefined script", action.ref>>, "Error")>>
             ELSE <<>>

\* Variant: a reference to a macro that is not Ready is an Error.
ActionIssuesDraftIsError(config, widget_path, widget) ==
  IF ~IsSome(widget.action) THEN <<>>
  ELSE LET action == Unwrap(widget.action) IN
    IF action.type = "macro"
      THEN IF action.ref \notin DOMAIN config.macros
             THEN <<ValidationIssue(widget_path, <<"References undefined macro", action.ref>>, "Error")>>
             ELSE IF config.macros[action.ref].status # "Ready"
                    THEN <<ValidationIssue(widget_path,
                             <<"References macro that is not marked ready and will not be compiled",
                               action.ref>>, "Error")>>
                    ELSE <<>>
      ELSE IF action.ref \notin DOMAIN config.scripts
             THEN <<ValidationIssue(widget_path, <<"References undefined script", action.ref>>, "Error")>>
             ELSE <<>>

\* validate_config, lines 104-136: the action of one widget.
ActionIssues(config, widget_path, widget) ==
  IF ~IsSome(widget.action) THEN <<>>
  ELSE LET action == Unwrap(widget.action) IN
    IF action.type = "macro"
      THEN IF action.ref \notin DOMAIN config.macros
             THEN <<ValidationIssue(widget_path, <<"References undefined macro", action.ref>>, "Error")>>
             ELSE IF config.macros[action.ref].status # "Ready"
                    THEN <<ValidationIssue(widget_path,
                             <<"References macro that is not marked ready and will not be compiled",
                               action.ref>>, "Warning")>>
                    ELSE <<>>
      ELSE IF action.ref \notin DOMAIN config.scripts
             THEN <<ValidationIssue(widget_path, <<"References undefined script", action.ref>>, "Error")>>
             ELSE <<>>

\* validate_config, lines 92-137: the widgets of one page, from widget i on;
\* widget_ids is the HashSet of the ids seen so far on the page.
RECURSIVE WidgetIssues(_, _, _, _, _, _)
WidgetIssues(config, dev, page_index, widgets, i, widget_ids) ==
  IF i > Len(widgets) THEN <<>>
  ELSE LET widget == widgets[i]
           widget_path == <<"devices", dev, "pages", ToString(page_index), "widgets", widget.id>>
           dup == IF widget.id \in widget_ids
                    THEN <<ValidationIssue(widget_path, <<"Duplicate widget id within page">>, "Error")>>
                    ELSE <<>>
       IN dup \o ActionIssues(config, widget_path, widget)
              \o WidgetIssues(config, dev, page_index, widgets, i + 1, widget_ids \cup {widget.id})

\* validate_config, lines 91-138: the pages of one device (page_index is 0-based).
RECURSIVE PageIssues(_, _, _, _)
PageIssues(config, dev, pages, i) ==
  IF i > Len(pages) THEN <<>>
  ELSE WidgetIssues(config, dev, i - 1, pages[i].widgets, 1, {})
         \o PageIssues(config, dev, pages, i + 1)

\* validate_config, lines 56-139: the devices in iteration order, from i on;
\* hardware_ids maps a trimmed hardware id to the device that inserted it last.
RECURSIVE DeviceIssues(_, _, _, _)
DeviceIssues(config, order, i, hardware_ids) ==
  IF i > Len(order) THEN <<>>
  ELSE LET device_name == order[i]
           device == config.devices[device_name]
           path == <<"devices", device_name, "hardware_id">>
           present == IsSome(device.hardware_id) /\ Trim(Unwrap(device.hardware_id)) # ""
           id == IF present THEN Trim(Unwrap(device.hardware_id)) ELSE ""
           hw == IF present
                   THEN IF id \in DOMAIN hardware_ids
                          THEN <<ValidationIssue(path, <<"Duplicate hardware_id also used by", id,
                                                        hardware_ids[id]>>, "Error")>>
                          ELSE <<>>
                   ELSE IF IsSome(device.hardware_id)
                          THEN <<ValidationIssue(path, <<"hardware_id must not be empty">>, "Error")>>
                          ELSE <<ValidationIssue(path, <<"hardware_id is required">>, "Error")>>
           next_ids == IF present THEN MapInsert(hardware_ids, id, device_name) ELSE hardware_ids
       IN hw \o PageIssues(config, device_name, device.pages, 1)
             \o DeviceIssues(config, order, i + 1, next_ids)

\* validate_config, lines 177-198: the steps of one macro, from step i on
\* (the path carries the 0-based index).
RECURSIVE StepIssues(_, _, _, _)
StepIssues(macro_name, macro_def, steps, i) ==
  IF i > Len(steps) THEN <<>>
  ELSE LET step == steps[i]
           path == <<"macros", macro_name, "steps", ToString(i - 1)>>
           bad_keys == step.keys = <<>> \/ \E k \in 1..Len(step.keys) : Trim(step.keys[k]) = ""
           here == IF step.type = "keystroke"
                     THEN IF bad_keys
                            THEN <<ValidationIssue(path,
                                     <<"Keystroke step must define at least one non-empty key">>,
                                     adjust_severity_for_macro(macro_def.status, "Error"))>>
                            ELSE <<>>
                     ELSE IF step.ms = 0
                            THEN <<ValidationIssue(path,
                                     <<"Pause duration must be greater than zero">>,
                                     adjust_severity_for_macro(macro_def.status, "Error"))>>
                            ELSE <<>>
       IN here \o StepIssues(macro_name, macro_def, steps, i + 1)

\* Variant: a note that is already assigned is an Error.
RECURSIVE MacroIssuesDuplicateIsError(_, _, _, _)
MacroIssuesDuplicateIsError(config, order, i, note_map) ==
  IF i > Len(order) THEN <<>>
  ELSE LET macro_name == order[i]
           macro_def == config.macros[macro_name]
           path == <<"macros", macro_name, "trigger">>
           has == IsSome(macro_def.trigger)
           number == IF has THEN Unwrap(macro_def.trigger) ELSE 0
           trig == IF has
                     THEN IF number > MaxNote
                            THEN <<ValidationIssue(path,
                                     <<"Note trigger number must be between 0 and 127">>,
                                     adjust_severity_for_macro(macro_def.status, "Error"))>>
                            ELSE IF number \in DOMAIN note_map
                                   THEN <<ValidationIssue(path,
                                            <<"Note already assigned to macro", ToString(number),
                                              note_map[number]>>, "Error")>>
                                   ELSE <<>>
                     ELSE IF macro_def.status = "Ready"
                            THEN <<ValidationIssue(path, <<"Ready macro missing trigger">>, "Warning")>>
                            ELSE <<>>
           next_map == IF has /\ number <= MaxNote
                         THEN MapInsert(note_map, number, macro_name)
                         ELSE note_map
       IN trig \o StepIssues(macro_name, macro_def, macro_def.steps, 1)
               \o MacroIssuesDuplicateIsError(config, order, i + 1, next_map)

\* Variant: a Ready macro without trigger goes unreported.
RECURSIVE MacroIssuesMissingUnreported(_, _, _, _)
MacroIssuesMissingUnreported(config, order, i, note_map) ==
  IF i > Len(order) THEN <<>>
  ELSE LET macro_name == order[i]
           macro_def == config.macros[macro_name]
           path == <<"macros", macro_name, "trigger">>
           has == IsSome(macro_def.trigger)
           number == IF has THEN Unwrap(macro_def.trigger) ELSE 0
           trig == IF has
                     THEN IF number > MaxNote
                            THEN <<ValidationIssue(path,
                                     <<"Note trigger number must be between 0 and 127">>,
                                     adjust_severity_for_macro(macro_def.status, "Error"))>>
                            ELSE IF number \in DOMAIN note_map
                                   THEN <<ValidationIssue(path,
                                            <<"Note already assigned to macro", ToString(number),
                                              note_map[number]>>, "Warning")>>
                                   ELSE <<>>
                     ELSE <<>>
           next_map == IF has /\ number <= MaxNote
                         THEN MapInsert(note_map, number, macro_name)
                         ELSE note_map
       IN trig \o StepIssues(macro_name, macro_def, macro_def.steps, 1)
               \o MacroIssuesMissingUnreported(config, order, i + 1, next_map)

\* validate_config, lines 143-199: the macros in iteration order, from i on;
\* note_map maps a note to the macro that inserted it last.
RECURSIVE MacroIssues(_, _, _, _)
MacroIssues(config, order, i, note_map) ==
  IF i > Len(order) THEN <<>>
  ELSE LET macro_name == order[i]
           macro_def == config.macros[macro_name]
           path == <<"macros", macro_name, "trigger">>
           has == IsSome(macro_def.trigger)
           number == IF has THEN Unwrap(macro_def.trigger) ELSE 0
           trig == IF has
                     THEN IF number > MaxNote
                            THEN <<ValidationIssue(path,
                                     <<"Note trigger number must be between 0 and 127">>,
                                     adjust_severity_for_macro(macro_def.status, "Error"))>>
                            ELSE IF number \in DOMAIN note_map
                                   THEN <<ValidationIssue(path,
                                            <<"Note already assigned to macro", ToString(number),
                                              note_map[number]>>, "Warning")>>
                                   ELSE <<>>
                     ELSE IF macro_def.status = "Ready"
                            THEN <<ValidationIssue(path, <<"Ready macro missing trigger">>, "Warning")>>
                            ELSE <<>>
           next_map == IF has /\ number <= MaxNote
                         THEN MapInsert(note_map, number, macro_name)
                         ELSE note_map
       IN trig \o StepIssues(macro_name, macro_def, macro_def.steps, 1)
               \o MacroIssues(config, order, i + 1, next_map)

\* Variant: every script is reported, whatever its body.
ScriptIssuesRejectAll(config, order, i) ==
  [k \in 1..(Len(order) + 1 - i) |->
     ValidationIssue(<<"scripts", order[k + i - 1]>>, <<"Script body must not be empty">>, "Error")]

\* validate_config, lines 201-213: the scripts in iteration order (a script is
\* its body, for Script::Body and Script::Inline alike).
RECURSIVE ScriptIssues(_, _, _)
ScriptIssues(config, order, i) ==
  IF i > Len(order) THEN <<>>
  ELSE (IF Trim(config.scripts[order[i]]) = ""
          THEN <<ValidationIssue(<<"scripts", order[i]>>, <<"Script body must not be empty">>, "Error")>>
          ELSE <<>>)
       \o ScriptIssues(config, order, i + 1)

\* An iteration order of each of the three maps of a Config.
Orders(config) ==
  [devices : Perms(DOMAIN config.devices),
   macros : Perms(DOMAIN config.macros),
   scripts : Perms(DOMAIN config.scripts)]

\* validate_config(config, source) under the iteration orders ord.
validate_config(config, ord) ==
  VersionIssues(config)
    \o DeviceIssues(config, ord.devices, 1, EmptyMap)
    \o MacroIssues(config, ord.macros, 1, EmptyMap)
    \o ScriptIssues(config, ord.scripts, 1)

HasError(diagnostics) ==
  \E i \in 1..Len(diagnostics) : diagnostics[i].severity = "Error"

\* ------------------------------------------- cache builder (cache_builder)

\* Result<T, E>: Ok(v) and Err(e) with one record shape.
Ok(v) == [ok |-> TRUE, val |-> Some(v), err |-> None]
Err(e) == [ok |-> FALSE, val |-> None, err |-> Some(e)]

\* The device ids the model uses, in ascending (String::cmp) order.
DeviceIdsAscending == <<"alpha", "beta", "gamma">>
DeviceRank(id) == CHOOSE i \in 1..Len(DeviceIdsAscending) : DeviceIdsAscending[i] = id

\* The devices of a generated text in the order the text declares them: Render
\* writes the entries of a map in ascending order of their keys.
DeclaredDevices(config) ==
  LET ids == DOMAIN config.devices
      n == Cardinality(ids)
  IN CHOOSE s \in [1..n -> ids] :
       \A i, j \in 1..n : i < j => DeviceRank(s[i]) < DeviceRank(s[j])

\* Variant: assemble_bundle without its filter on the status.
SelectAllIds(config, order, i) == SubSeq(order, i, Len(order))

\* The filter of assemble_bundle: the ids of the Ready macros, in iteration order.
RECURSIVE SelectIds(_, _, _)
SelectIds(config, order, i) ==
  IF i > Len(order) THEN <<>>
  ELSE (IF config.macros[order[i]].status = "Ready" THEN <<order[i]>> ELSE <<>>)
       \o SelectIds(config, order, i + 1)

convert_macro_step(step) ==
  IF step.type = "keystroke" THEN Keystroke(step.keys) ELSE Pause(step.ms)

convert_trigger(trigger) == trigger

\* cache_format::MacroEntry built by assemble_bundle's map closure.
MacroEntry(id, m) ==
  [id |-> id,
   trigger |-> IF IsSome(m.trigger) THEN Some(convert_trigger(Unwrap(m.trigger))) ELSE None,
   steps |-> [k \in 1..Len(m.steps) |-> convert_macro_step(m.steps[k])]]

convert_action(action) == [type |-> action.type, id |-> action.ref]

convert_widgets(widgets) ==
  [k \in 1..Len(widgets) |->
     [id |-> widgets[k].id,
      tap_behavior |-> widgets[k].tap_behavior,
      action |-> IF IsSome(widgets[k].action)
                   THEN Some(convert_action(Unwrap(widgets[k].action)))
                   ELSE None]]

convert_pages(pages) ==
  [k \in 1..Len(pages) |-> [name |-> pages[k].name, widgets |-> convert_widgets(pages[k].widgets)]]

\* Variant: convert_devices sorts the other way round.
ConvertDevicesDescending(devices) ==
  LET ids == DOMAIN devices
      n == Cardinality(ids)
      sorted == CHOOSE s \in [1..n -> ids] :
                  \A i, j \in 1..n : i < j => DeviceRank(s[i]) > DeviceRank(s[j])
  IN [k \in 1..n |->
        [id |-> sorted[k],
         hardware_id |-> devices[sorted[k]].hardware_id,
         pages |-> convert_pages(devices[sorted[k]].pages)]]

\* convert_devices: collect, sort by device id, map to DeviceLayout.
convert_devices(devices) ==
  LET ids == DOMAIN devices
      n == Cardinality(ids)
      sorted == CHOOSE s \in [1..n -> ids] :
                  \A i, j \in 1..n : i < j => DeviceRank(s[i]) < DeviceRank(s[j])
  IN [k \in 1..n |->
        [id |-> sorted[k],
         hardware_id |-> devices[sorted[k]].hardware_id,
         pages |-> convert_pages(devices[sorted[k]].pages)]]

\* assemble_bundle(config, source): the macros in the HashMap's iteration order.
assemble_bundle(config, source, ord) ==
  LET ready == SelectIds(config, ord.macros, 1)
  IN [header |-> [version |-> CACHE_VERSION, source_hash |-> xxh3_64(source)],
      devices |-> convert_devices(config.devices),
      macros |-> [k \in 1..Len(ready) |-> MacroEntry(ready[k], config.macros[ready[k]])]]

\* Variant: the bundle is assembled whatever the validator reported.
BuildFromConfigUnchecked(config, source, ord) ==
  Ok([bundle |-> assemble_bundle(config, source, ord),
      diagnostics |-> validate_config(config, ord)])

\* build_from_config: validate first, fail on any Error with the full list.
build_from_config(config, source, ord) ==
  LET diagnostics == validate_config(config, ord)
  IN IF HasError(diagnostics)
       THEN Err([kind |-> "Validation", diagnostics |-> diagnostics])
       ELSE Ok([bundle |-> assemble_bundle(config, source, ord), diagnostics |-> diagnostics])

build_from_str(content, ord) ==
  LET parsed == parse_config_str(content)
  IN IF ~IsSome(parsed)
       THEN Err([kind |-> "Parse", diagnostics |-> <<>>])
       ELSE build_from_config(Unwrap(parsed), content, ord)

\* build_from_path: f is what the path holds when it is read.
build_from_path(f, ord) ==
  LET content == read_to_string(f)
  IN IF ~IsSome(content)
       THEN Err([kind |-> "Io", diagnostics |-> <<>>])
       ELSE build_from_str(Unwrap(content), ord)

\* -------------------------------------------------- runtime config (config.rs)

\* The iteration orders a parse of text f can give (none when it does not parse).
OrdersOf(f) ==
  IF IsSome(parse_config_str(f))
    THEN Orders(Unwrap(parse_config_str(f)))
    ELSE {[devices |-> <<>>, macros |-> <<>>, scripts |-> <<>>]}

\* Variant: load_from_str fails on any diagnostic, whatever its severity.
LoadFromStrStrict(content, ord) ==
  LET parsed == parse_config_str(content)
  IN IF ~IsSome(parsed)
       THEN Err([kind |-> "Parse", diagnostics |-> <<>>])
       ELSE LET diagnostics == validate_config(Unwrap(parsed), ord)
            IN IF diagnostics # <<>>
                 THEN Err([kind |-> "Validation", diagnostics |-> diagnostics])
                 ELSE Ok([config |-> Unwrap(parsed), diagnostics |-> diagnostics])

\* load_from_str: LoadedConfig or LoadError.
load_from_str(content, ord) ==
  LET parsed == parse_config_str(content)
  IN IF ~IsSome(parsed)
       THEN Err([kind |-> "Parse", diagnostics |-> <<>>])
       ELSE LET diagnostics == validate_config(Unwrap(parsed), ord)
            IN IF HasError(diagnostics)
                 THEN Err([kind |-> "Validation", diagnostics |-> diagnostics])
                 ELSE Ok([config |-> Unwrap(parsed), diagnostics |-> diagnostics])

load_from_path(f, ord) ==
  LET content == read_to_string(f)
  IN IF ~IsSome(content)
       THEN Err([kind |-> "Io", diagnostics |-> <<>>])
       ELSE load_from_str(Unwrap(content), ord)

\* compile_cache_from_path: CompiledCache, CompileError::Validation, or
\* CompileError::Build wrapping the builder's Io / Parse error.
compile_cache_from_path(f, ord) ==
  LET built == build_from_path(f, ord)
  IN IF built.ok
       THEN Ok([bundle |-> Unwrap(built.val).bundle, diagnostics |-> Unwrap(built.val).diagnostics])
       ELSE IF Unwrap(built.err).kind = "Validation"
              THEN Err([kind |-> "Validation", diagnostics |-> Unwrap(built.err).diagnostics])
              ELSE Err([kind |-> "Build", diagnostics |-> <<>>])

\* compile_cache_from_str: as compile_cache_from_path, without the read.
compile_cache_from_str(content, ord) ==
  LET built == build_from_str(content, ord)
  IN IF built.ok
       THEN Ok([bundle |-> Unwrap(built.val).bundle, diagnostics |-> Unwrap(built.val).diagnostics])
       ELSE IF Unwrap(built.err).kind = "Validation"
              THEN Err([kind |-> "Validation", diagnostics |-> Unwrap(built.err).diagnostics])
              ELSE Err([kind |-> "Build", diagnostics |-> <<>>])

\* ------------------------------------------------------ AppState (app.rs)

\* AppState::initialize for a file that loads and compiles.
AppStateInitialize(f, ord1, ord2) ==
  [loaded |-> Unwrap(load_from_path(f, ord1).val) @@ [gen |-> 0],
   compiled |-> Unwrap(compile_cache_from_path(f, ord2).val) @@ [gen |-> 0]]

\* Variant: the loaded document is stored before the compile step has run.
AfterLoadEager(st, loaded) == [st EXCEPT !.loaded = loaded]

\* AppState::reload, line 37: the load result is kept in a local; self is untouched.
AfterLoad(st, loaded) == st

\* Variant: only the bundle is replaced.
StoreOnlyCompiled(st, loaded, compiled) == [st EXCEPT !.compiled = compiled]

\* AppState::reload, lines 39-40: both fields are replaced, after both steps succeeded.
StoreReload(st, loaded, compiled) == [loaded |-> loaded, compiled |-> compiled]

\* AppStateError::Load / AppStateError::Compile wrapping the step's error.
AppStateError(step, e) == [step |-> step, kind |-> e.kind, diagnostics |-> e.diagnostics]

\* watch::ReloadEvent.
Reloaded == [tag |-> "Reloaded", error |-> None]
Failed(e) == [tag |-> "Failed", error |-> Some(e)]

\* ------------------------------------------------------ consumers

\* MidiManager::new / ConsoleManager::new / Executor::new.
MidiManagerNew == [last_loaded_macros |-> <<>>, gen |-> -1]
ConsoleManagerNew ==
  [macro_count |-> 0, devices |-> <<>>, diagnostics |-> <<>>, widget_warning_cache |-> <<>>, gen |-> -1]
ExecutorNew == [macros |-> EmptyMap, triggers |-> EmptyMap, last_actions |-> <<>>, gen |-> -1]

\* MidiManager::apply_cache.
MidiApplyCache(m, cache) ==
  [last_loaded_macros |-> [k \in 1..Len(cache.bundle.macros) |-> cache.bundle.macros[k].id],
   gen |-> cache.gen]

\* ConsoleManager::parse_widget_warning: a path devices.<id>.pages[<n>].widgets.<id>.
IsWidgetPath(path) ==
  Len(path) = 6 /\ path[1] = "devices" /\ path[3] = "pages" /\ path[5] = "widgets"

\* The page name of page index (a decimal string) of device id, when there is one.
PageNameOf(devices, device_id, index) ==
  LET hits == {<<d, p>> \in (1..Len(devices)) \X (0..3) :
                 /\ devices[d].id = device_id
                 /\ ToString(p) = index
                 /\ p + 1 <= Len(devices[d].pages)
                 /\ \A e \in 1..(d - 1) : devices[e].id # device_id}
  IN IF hits = {} THEN None
     ELSE LET h == CHOOSE x \in hits : TRUE IN Some(devices[h[1]].pages[h[2] + 1].name)

\* ConsoleManager::rebuild_warning_cache, from diagnostic i on.
RECURSIVE WarningCache(_, _, _)
WarningCache(devices, diagnostics, i) ==
  IF i > Len(diagnostics) THEN <<>>
  ELSE (IF diagnostics[i].severity = "Warning" /\ IsWidgetPath(diagnostics[i].path)
          THEN <<[device_id |-> diagnostics[i].path[2],
                  page_index |-> diagnostics[i].path[4],
                  page_name |-> PageNameOf(devices, diagnostics[i].path[2], diagnostics[i].path[4]),
                  widget_id |-> diagnostics[i].path[6],
                  message |-> diagnostics[i].message]>>
          ELSE <<>>)
       \o WarningCache(devices, diagnostics, i + 1)

\* Variant: rebuild_warning_cache without its clear().
ConsoleApplyKeepWarnings(c, cache) ==
  [macro_count |-> Len(cache.bundle.macros),
   devices |-> cache.bundle.devices,
   diagnostics |-> cache.diagnostics,
   widget_warning_cache |->
     c.widget_warning_cache \o WarningCache(cache.bundle.devices, cache.diagnostics, 1),
   gen |-> cache.gen]

\* ConsoleManager::apply_cache.
ConsoleApplyCache(c, cache) ==
  [macro_count |-> Len(cache.bundle.macros),
   devices |-> cache.bundle.devices,
   diagnostics |-> cache.diagnostics,
   widget_warning_cache |-> WarningCache(cache.bundle.devices, cache.diagnostics, 1),
   gen |-> cache.gen]

\* Executor::apply_cache, lines 76-82: the macro table keyed by id.
MacroTable(bundle) ==
  [id \in {bundle.macros[k].id : k \in 1..Len(bundle.macros)} |->
     bundle.macros[CHOOSE k \in 1..Len(bundle.macros) : bundle.macros[k].id = id]]

\* Executor::apply_cache, lines 83-88: the trigger table filled by iterating
\* the macro table's values in the order `order`, from i on.
RECURSIVE TriggerTable(_, _, _, _)
TriggerTable(macros, order, i, triggers) ==
  IF i > Len(order) THEN triggers
  ELSE LET entry == macros[order[i]]
       IN TriggerTable(macros, order, i + 1,
            IF IsSome(entry.trigger)
              THEN MapInsert(triggers, Unwrap(entry.trigger), entry.id)
              ELSE triggers)

\* Variant: self.triggers.clear() is missing, new triggers are added to the old.
ExecutorApplyKeepTriggers(e, cache, order) ==
  [macros |-> MacroTable(cache.bundle),
   triggers |-> TriggerTable(MacroTable(cache.bundle), order, 1, e.triggers),
   last_actions |-> e.last_actions,
   gen |-> cache.gen]

\* Executor::apply_cache; last_actions is left as it is.
ExecutorApplyCache(e, cache, order) ==
  [macros |-> MacroTable(cache.bundle),
   triggers |-> TriggerTable(MacroTable(cache.bundle), order, 1, EmptyMap),
   last_actions |-> e.last_actions,
   gen |-> cache.gen]

\* executor::ActionLog pushed by execute_macro for one step.
ActionLog(step) == step

\* What execute_macro does for one step besides logging it: the keystroke is
\* handed to the KeySender, the pause is slept.
Effect(step) ==
  IF step.type = "keystroke"
    THEN [do |-> "send_keystroke", keys |-> step.keys, ms |-> 0]
    ELSE [do |-> "sleep", keys |-> <<>>, ms |-> step.ms]

\* execute_macro's loop over entry.steps from step i on; acc holds last_actions
\* and the effects performed so far.
RECURSIVE RunSteps(_, _, _)
RunSteps(steps, i, acc) ==
  IF i > Len(steps) THEN acc
  ELSE RunSteps(steps, i + 1,
                [last_actions |-> Append(acc.last_actions, ActionLog(steps[i])),
                 performed |-> Append(acc.performed, Effect(steps[i]))])

\* Variant: last_actions is not cleared before the steps are run.
ExecuteMacroKeepLog(e, id) ==
  IF id \notin DOMAIN e.macros
    THEN [returned |-> FALSE, executor |-> e, performed |-> <<>>]
    ELSE LET done == RunSteps(e.macros[id].steps, 1,
                              [last_actions |-> e.last_actions, performed |-> <<>>])
         IN [returned |-> TRUE,
             executor |-> [e EXCEPT !.last_actions = done.last_actions],
             performed |-> done.performed]

\* Executor::execute_macro(id) run to its end: what it returns, the Executor it
\* leaves and the effects it performed.
execute_macro(e, id) ==
  IF id \notin DOMAIN e.macros
    THEN [returned |-> FALSE, executor |-> e, performed |-> <<>>]
    ELSE LET done == RunSteps(e.macros[id].steps, 1,
                              [last_actions |-> <<>>, performed |-> <<>>])
         IN [returned |-> TRUE,
             executor |-> [e EXCEPT !.last_actions = done.last_actions],
             performed |-> done.performed]

\* Executor::execute_midi_event(event) run to its end.
execute_midi_event(e, n) ==
  IF n \in DOMAIN e.triggers
    THEN execute_macro(e, e.triggers[n])
    ELSE [returned |-> FALSE, executor |-> e, performed |-> <<>>]

\* watch::is_relevant over notify::EventKind (Modify covers data and metadata).
is_relevant(kind) ==
  kind \in {"ModifyData", "ModifyMetadata", "Create", "Remove", "Other"}

\* Variant: no mutual exclusion.
CanAcquireAlways(lock) == TRUE

\* tokio::sync::Mutex::lock().await completes only when nobody holds the mutex.
CanAcquire(lock) == lock = "none"

\* Variant: the guard is kept until the end of the fan-out.
KeepAfterApply(owner) == owner

\* apply_cache_to_modules: each guard lives in its own block and is dropped at its end.
ReleaseAfterApply(owner) == "none"

\* Variant: the listener keeps the state guard during its fan-out.
StateLockKept(owner) == owner

\* runtime.rs lines 73-76: the listener's state guard is dropped once the cache is cloned.
StateLockAfterClone(owner) == "none"

\* ------------------------------------------------------------------ state

VARIABLES
  file,        \* what the watched path holds: a text of the catalogue, or NoFile
  fsCount,     \* notifications produced so far
  notifyQ,     \* mpsc channel watcher callback -> watch task (notify_tx / notify_rx)
  wpc,         \* watch task: "unspawned", "recv", "lock", "compile", "exited"
  deadline,    \* watch task: None, or Some(milliseconds left until the deadline)
  wloaded,     \* AppState::reload's local `loaded` between its two steps
  attempts,    \* number of AppState::reload calls started
  app,         \* AppState: loaded, compiled
  stateLock,   \* holder of the AppState mutex: "none", "init", "watch", "listener"
  reloadQ,     \* broadcast of ReloadEvent: what the listener's receiver has pending
  pc,          \* pc["listener"]: "unspawned", "select", "select_midi" / "select_reload"
               \* (select! with the reload / the MIDI branch disabled), "exited", "dispatch", "running", "clone", "fanout";  pc["api"] (a trigger_midi caller): "idle", "dispatch", "running"
  note,        \* the MidiEvent note each task is dispatching
  exe,         \* the execute_macro frame of each task
  fan,         \* apply_cache_to_modules frame: pc, owner, cache
  midiLock, consoleLock, execLock,   \* holders of the three consumer mutexes
  midi, console, executor,           \* MidiManager, ConsoleManager, Executor
  midiQ,       \* broadcast of MidiEvent: what the listener's receiver has pending
  midiCount,   \* MIDI events produced so far
  callCount,   \* trigger_midi calls made so far
  hist,        \* history: burstContent, owed, willCover, arms, got
  lag,         \* events the listener's reload receiver has missed (broadcast lag)
  down,        \* RuntimeManager::shutdown has aborted the three tasks
  live,        \* the aborted tasks that were being polled and have not suspended yet
  arg, ret     \* a call of a library function made on its own: argument and result

vars ==
  <<file, fsCount, notifyQ, wpc, deadline, wloaded, attempts, app, stateLock, reloadQ,
    pc, note, exe, fan, midiLock, consoleLock, execLock, midi, console, executor,
    midiQ, midiCount, callCount, hist, lag, down, live, arg, ret>>

Tasks == {"listener", "api"}
Home(t) == IF t = "listener" THEN "select" ELSE "idle"

\* The notes a MIDI event of the model carries (60 and 61 are used by the catalogue).
Notes == {60, 61}

\* notify kinds the environment reports without a change of content.
NoticeKinds == {"Access", "ModifyMetadata"}

\* No execution.  A frame holds the macro id and the index of the last step done;
\* entry, tabGen, pubGen, current and quiet are history taken at dispatch.
NoFrame ==
  [id |-> "", idx |-> 0, entry |-> None, tabGen |-> -1, pubGen |-> -1,
   current |-> FALSE, quiet |-> FALSE]
FanIdle == [pc |-> "idle", owner |-> "none", cache |-> None]

InitDone == wpc # "unspawned"

\* RuntimeManager::initialize after AppState::initialize, the consumers' new() and
\* state.lock(): the first fan-out is about to run under the state guard.
InitProgram ==
  /\ file = TextDraft
  /\ fsCount = 0
  /\ notifyQ = <<>>
  /\ wpc = "unspawned"
  /\ deadline = None
  /\ wloaded = None
  /\ attempts = 0
  /\ \E o1 \in OrdersOf(TextDraft), o2 \in OrdersOf(TextDraft) :
       app = AppStateInitialize(TextDraft, o1, o2)
  /\ stateLock = "init"
  /\ reloadQ = <<>>
  /\ pc = [t \in Tasks |-> IF t = "listener" THEN "unspawned" ELSE "idle"]
  /\ note = [t \in Tasks |-> 0]
  /\ exe = [t \in Tasks |-> NoFrame]
  /\ fan = [pc |-> "midi_lock", owner |-> "init", cache |-> Some(app.compiled)]
  /\ midiLock = "none" /\ consoleLock = "none" /\ execLock = "none"
  /\ midi = MidiManagerNew
  /\ console = ConsoleManagerNew
  /\ executor = ExecutorNew
  /\ midiQ = <<>>
  /\ midiCount = 0
  /\ callCount = 0
  /\ hist = [burstContent |-> TextDraft, owed |-> FALSE, willCover |-> FALSE, arms |-> 0,
             got |-> 0]
  /\ lag = 0
  /\ down = FALSE
  /\ live = {}

Init == InitProgram /\ arg = None /\ ret = None

\* ----------------------------------------------- library calls on their own

\* Executions a caller makes in a row on one Executor.
MaxExecutions == 2

\* The texts a caller hands to load_from_str, build_from_str, compile_cache_from_str.
CallTexts == Texts \cup GenTexts

\* The caches compile_cache_from_str returns for the documents about macros.
GenCaches ==
  {Unwrap(r.val) :
     r \in {c \in UNION {{compile_cache_from_str(Render(d), o) : o \in OrdersOf(Render(d))} :
                            d \in MacroDocs} : c.ok}}

\* The caches a caller applies twice in a row: the second replaces a first that
\* holds a macro.
ApplyPairs ==
  {<<a, b>> \in GenCaches \X GenCaches : a.bundle.macros # <<>> /\ a # b}

\* A call: compile the text, or apply the first and then the second of the
\* caches to the three consumers; n counts the steps done.
Calls ==
  {[op |-> "compile", text |-> t, caches |-> <<>>, n |-> 0] : t \in CallTexts}
    \cup {[op |-> "apply", text |-> "",
           caches |-> <<p[1] @@ [gen |-> 1], p[2] @@ [gen |-> 2]>>, n |-> 0] :
            p \in ApplyPairs}
    \cup {[op |-> "execute", text |-> "", caches |-> <<c @@ [gen |-> 1]>>, n |-> 0] :
            c \in GenCaches}

PureInit == InitProgram /\ arg \in Calls /\ ret = None

PureUnchanged ==
  UNCHANGED <<file, fsCount, notifyQ, wpc, deadline, wloaded, attempts, app, stateLock, reloadQ,
              pc, note, exe, fan, midiLock, consoleLock, execLock,
              midiQ, midiCount, callCount, hist, lag, down, live>>

\* The text is loaded once and compiled twice; every call parses the text anew,
\* so every call has HashMaps of its own.
CompileTwice ==
  /\ arg.op = "compile"
  /\ arg.n = 0
  /\ arg' = [arg EXCEPT !.n = 1]
  /\ \E o1 \in OrdersOf(arg.text), o2 \in OrdersOf(arg.text), o3 \in OrdersOf(arg.text) :
       ret' = [first |-> compile_cache_from_str(arg.text, o1),
               second |-> compile_cache_from_str(arg.text, o2),
               loaded |-> load_from_str(arg.text, o3)]
  /\ UNCHANGED <<midi, console, executor>>
  /\ PureUnchanged

\* apply_cache of the three consumers with the next cache of the pair.
ApplyNext ==
  /\ arg.op = "apply"
  /\ arg.n < 2
  /\ arg' = [arg EXCEPT !.n = @ + 1]
  /\ LET cache == arg.caches[arg.n + 1] IN
       /\ midi' = MidiApplyCache(midi, cache)
       /\ console' = ConsoleApplyCache(console, cache)
       /\ \E order \in Perms(DOMAIN MacroTable(cache.bundle)) :
            executor' = ExecutorApplyCache(executor, cache, order)
  /\ UNCHANGED ret
  /\ PureUnchanged

\* Executor::new followed by apply_cache of the call's cache.
ExecuteApply ==
  /\ arg.op = "execute"
  /\ arg.n = 0
  /\ arg' = [arg EXCEPT !.n = 1]
  /\ \E order \in Perms(DOMAIN MacroTable(arg.caches[1].bundle)) :
       executor' = ExecutorApplyCache(executor, arg.caches[1], order)
  /\ UNCHANGED <<midi, console, ret>>
  /\ PureUnchanged

\* The ids a caller passes to execute_macro: "missing" is in no cache.
CallIds == {"a", "b", "missing"}

\* A caller runs execute_macro(id) to its end.
ExecuteMacroCall ==
  /\ arg.op = "execute"
  /\ arg.n \in 1..MaxExecutions
  /\ arg' = [arg EXCEPT !.n = @ + 1]
  /\ \E id \in CallIds :
       LET r == execute_macro(executor, id)
       IN /\ executor' = r.executor
          /\ ret' = [call |-> "execute_macro", id |-> id, note |-> 0, before |-> executor,
                     returned |-> r.returned, performed |-> r.performed]
  /\ UNCHANGED <<midi, console>>
  /\ PureUnchanged

\* A caller runs execute_midi_event(event) to its end.
ExecuteMidiCall ==
  /\ arg.op = "execute"
  /\ arg.n \in 1..MaxExecutions
  /\ arg' = [arg EXCEPT !.n = @ + 1]
  /\ \E n \in Notes :
       LET r == execute_midi_event(executor, n)
       IN /\ executor' = r.executor
          /\ ret' = [call |-> "execute_midi_event", id |-> "", note |-> n, before |-> executor,
                     returned |-> r.returned, performed |-> r.performed]
  /\ UNCHANGED <<midi, console>>
  /\ PureUnchanged

PureNext == CompileTwice \/ ApplyNext \/ ExecuteApply \/ ExecuteMacroCall \/ ExecuteMidiCall

PureSpec == PureInit /\ [][PureNext]_vars

\* ------------------------------------------------------------ shutdown

\* Whether the watch task, polled now, makes a step: the await it stands at is
\* ready, or it is in the synchronous part of reload_state.
WatchCanRun ==
  \/ wpc = "recv" /\ (notifyQ # <<>> \/ deadline = Some(0))
  \/ wpc = "lock" /\ CanAcquire(stateLock)
  \/ wpc = "compile"

\* Whether the listener task, polled now, makes a step.
ListenerCanRun ==
  \/ pc["listener"] \in {"select", "select_midi"} /\ midiQ # <<>>
  \/ pc["listener"] \in {"select", "select_reload"} /\ (lag > 0 \/ reloadQ # <<>>)
  \/ pc["listener"] = "clone" /\ CanAcquire(stateLock)
  \/ pc["listener"] = "dispatch" /\ CanAcquire(execLock)
  \/ pc["listener"] = "running"
  \/ /\ fan.owner = "listener"
     /\ \/ fan.pc \in {"midi_apply", "console_apply", "exec_apply"}
        \/ fan.pc = "midi_lock" /\ CanAcquire(midiLock)
        \/ fan.pc = "console_lock" /\ CanAcquire(consoleLock)
        \/ fan.pc = "exec_lock" /\ CanAcquire(execLock)

CanRun(t) ==
  CASE t = "watch" -> WatchCanRun
    [] t = "listener" -> ListenerCanRun
    [] OTHER -> FALSE

\* The tasks that are inside a poll for certain: they stand between two awaits.
MustRun ==
  {t \in {"watch"} : wpc = "compile"}
    \cup {t \in {"listener"} :
            fan.owner = "listener" /\ fan.pc \in {"midi_apply", "console_apply", "exec_apply"}}

\* Variant: shutdown aborts the watch task alone.
AbortsWatchOnly(t) == t = "watch"

\* RuntimeManager::shutdown: the tasks whose JoinHandle::abort() it calls.
Aborts(t) == t \in {"watch", "listener", "midi"}

\* No task that is still being polled stands at an await that is not ready.
Settled == \A t \in live : CanRun(t)

\* JoinHandle::abort(): a task that is suspended is never polled again; a task
\* that is being polled goes on until an await of it returns Pending.
Runs(t) == ~down \/ ~Aborts(t) \/ (t \in live /\ Settled)

ShutdownUnchanged ==
  UNCHANGED <<file, fsCount, notifyQ, wpc, deadline, wloaded, attempts, app, stateLock, reloadQ,
              pc, note, exe, fan, midiLock, consoleLock, execLock, midi, console, executor,
              midiQ, midiCount, callCount, hist, lag, arg, ret>>

\* RuntimeManager::shutdown(self): no trigger_midi(&self) call is under way.  Each
\* of the two tasks is suspended, or on another worker thread inside a poll.
Shutdown ==
  /\ InitDone
  /\ ~down
  /\ pc["api"] = "idle"
  /\ down' = TRUE
  /\ \E s \in SUBSET {"watch", "listener"} :
       /\ MustRun \subseteq s
       /\ \A t \in s : CanRun(t)
       /\ live' = s
  /\ ShutdownUnchanged

\* An await of an aborted task returns Pending: the task is dropped.
Suspend(t) ==
  /\ down
  /\ t \in live
  /\ ~CanRun(t)
  /\ live' = live \ {t}
  /\ UNCHANGED down
  /\ ShutdownUnchanged

\* ------------------------------------------------------------ environment

\* The watcher callback: blocking_send of one notification (dropped once the
\* receiver is gone).  content is what the path holds when it is reported.
NotifyUpTo(limit, ok, kind) ==
  /\ ~down
  /\ fsCount < limit
  /\ fsCount' = fsCount + 1
  /\ notifyQ' = IF wpc = "exited" THEN notifyQ
                ELSE Append(notifyQ, [ok |-> ok, kind |-> kind, content |-> file'])
  /\ hist' = IF ok /\ is_relevant(kind) /\ wpc # "exited"
               THEN [hist EXCEPT !.owed = TRUE, !.willCover = FALSE]
               ELSE hist

Notify(ok, kind) == NotifyUpTo(MaxFsEvents, ok, kind)

EnvUnchanged ==
  UNCHANGED <<wpc, deadline, wloaded, attempts, app, stateLock, reloadQ, lag, pc, note, exe, fan,
              midiLock, consoleLock, execLock, midi, console, executor, midiQ, midiCount,
              callCount,
              down, live, arg, ret>>

\* Another process writes the watched file.
FsWrite(t) ==
  /\ InitDone
  /\ t # file
  /\ file' = t
  /\ Notify(TRUE, IF file = NoFile THEN "Create" ELSE "ModifyData")
  /\ EnvUnchanged

\* Another process removes the watched file.
FsRemove ==
  /\ InitDone
  /\ file # NoFile
  /\ file' = NoFile
  /\ Notify(TRUE, "Remove")
  /\ EnvUnchanged

\* A notification that does not come with a change of content.
FsNotice(kind) ==
  /\ InitDone
  /\ file' = file
  /\ Notify(TRUE, kind)
  /\ EnvUnchanged

\* The watcher reports an error: Err(notify::Error) on the channel.
FsError ==
  /\ InitDone
  /\ file' = file
  /\ Notify(FALSE, "Error")
  /\ EnvUnchanged

\* Another process rewrites the watched file with the content it has, while the
\* watch task is idle.
Touch ==
  /\ InitDone
  /\ wpc = "recv" /\ deadline = None /\ notifyQ = <<>>
  /\ file' = file
  /\ NotifyUpTo(MaxTouches, TRUE, "ModifyData")
  /\ EnvUnchanged

\* The watcher reports an error, possibly after the last filesystem event.
WatcherError ==
  /\ InitDone
  /\ file' = file
  /\ NotifyUpTo(MaxFsEvents + 1, FALSE, "Error")
  /\ EnvUnchanged

\* What midi_rx_exec.recv() returns as Err(RecvError::Lagged(_)): it stands in
\* the receiver's queue before the oldest event the channel still holds.
Lagged == 0 - 1

\* tokio broadcast, Sender::send on the MidiEvent channel as the listener's
\* receiver sees it: a full channel drops its oldest event, and the receiver's
\* next recv reports the loss.
MidiBroadcastSend(q, n) ==
  LET held == IF q # <<>> /\ Head(q) = Lagged THEN Tail(q) ELSE q
  IN IF Len(held) < MidiCapacity
       THEN Append(q, n)
       ELSE <<Lagged>> \o Tail(held) \o <<n>>

\* The MIDI forwarding task broadcasts one event of a burst of unmapped notes
\* that arrives, after the reload channel has overflowed, while the listener is
\* inside a macro execution.
MidiFlood ==
  /\ Runs("midi")
  /\ pc["listener"] = "running"
  /\ lag > 0
  /\ midiCount < MaxMidi + MaxFlood
  /\ midiCount' = midiCount + 1
  /\ midiQ' = MidiBroadcastSend(midiQ, 61)
  /\ UNCHANGED <<file, fsCount, notifyQ, wpc, deadline, wloaded, attempts, app, stateLock,
                 reloadQ, lag, pc, note, exe, fan, midiLock, consoleLock, execLock, midi, console,
                 executor, callCount, hist,
                 down, live, arg, ret>>

\* Another process rewrites the watched file while the listener is inside a
\* macro execution.
TouchWhileRunning == pc["listener"] = "running" /\ Touch

\* The MIDI forwarding task broadcasts a note-on event.
MidiIn(n) ==
  /\ Runs("midi")
  /\ InitDone
  /\ midiCount < MaxMidi
  /\ midiCount' = midiCount + 1
  /\ midiQ' = Append(midiQ, n)
  /\ UNCHANGED <<file, fsCount, notifyQ, wpc, deadline, wloaded, attempts, app, stateLock,
                 reloadQ, lag, pc, note, exe, fan, midiLock, consoleLock, execLock, midi, console,
                 executor, callCount, hist,
                 down, live, arg, ret>>

\* Time passes while the debounce timer runs.
Tick ==
  /\ ~down
  /\ IsSome(deadline)
  /\ Unwrap(deadline) > 0
  /\ deadline' = Some(IF Unwrap(deadline) > TickMs THEN Unwrap(deadline) - TickMs ELSE 0)
  /\ UNCHANGED <<file, fsCount, notifyQ, wpc, wloaded, attempts, app, stateLock, reloadQ, lag, pc,
                 note, exe, fan, midiLock, consoleLock, execLock, midi, console, executor,
                 midiQ, midiCount, callCount, hist,
                 down, live, arg, ret>>

\* ------------------------------------------------- watch task (watch.rs)

\* Variant: the content is the one seen when the timer was armed.
PathContentAtArm == hist.burstContent

\* What fs::read_to_string(path) is given by load_from_path and build_from_path:
\* the content of the watched path at the moment of the call.
PathContent == file

\* The deadline after a notification n handled in Idle (lines 67-78).
DeadlineAfterIdle(n) ==
  IF n.ok THEN (IF is_relevant(n.kind) THEN Some(Debounce) ELSE None)
  ELSE Some(Debounce)

\* Variant: a notification in Debouncing leaves the timer as it is.
DeadlineKept(n, old) == old

\* The deadline after an Ok notification n handled in Debouncing (lines 53-56).
DeadlineAfterDebouncing(n, old) ==
  IF is_relevant(n.kind) THEN Some(Debounce) ELSE old

\* Whether the task leaves its loop on notification n in Debouncing (lines 53-59).
BreaksInDebouncing(n) == ~n.ok

WatchUnchanged ==
  UNCHANGED <<file, fsCount, pc, note, exe, fan, midiLock, consoleLock, execLock, midi,
              console, executor, midiQ, midiCount, callCount,
              down, live, arg, ret>>

\* loop, deadline == None: notify_rx.recv().await.
WatchRecvIdle ==
  /\ Runs("watch")
  /\ wpc = "recv"
  /\ deadline = None
  /\ notifyQ # <<>>
  /\ LET n == Head(notifyQ) IN
       /\ deadline' = DeadlineAfterIdle(n)
       /\ hist' = IF IsSome(DeadlineAfterIdle(n))
                    THEN [hist EXCEPT !.arms = @ + 1, !.burstContent = n.content]
                    ELSE hist
  /\ notifyQ' = Tail(notifyQ)
  /\ UNCHANGED <<wpc, wloaded, attempts, app, stateLock, reloadQ, lag>>
  /\ WatchUnchanged

\* loop, deadline == Some: select! takes the recv branch.
WatchRecvDebouncing ==
  /\ Runs("watch")
  /\ wpc = "recv"
  /\ IsSome(deadline)
  /\ notifyQ # <<>>
  /\ LET n == Head(notifyQ) IN
       IF BreaksInDebouncing(n)
         THEN /\ wpc' = "exited"
              /\ notifyQ' = <<>>
              /\ UNCHANGED deadline
         ELSE /\ deadline' = DeadlineAfterDebouncing(n, deadline)
              /\ notifyQ' = Tail(notifyQ)
              /\ UNCHANGED wpc
  /\ UNCHANGED <<wloaded, attempts, app, stateLock, reloadQ, lag, hist>>
  /\ WatchUnchanged

\* loop, deadline == Some: select! takes the sleep_until branch; deadline = None
\* and reload_state is entered (it waits for the state mutex).
WatchTimer ==
  /\ Runs("watch")
  /\ wpc = "recv"
  /\ deadline = Some(0)
  /\ deadline' = None
  /\ wpc' = "lock"
  /\ hist' = [hist EXCEPT !.willCover =
                ~\E i \in 1..Len(notifyQ) : notifyQ[i].ok /\ is_relevant(notifyQ[i].kind)]
  /\ UNCHANGED <<notifyQ, wloaded, attempts, app, stateLock, reloadQ, lag>>
  /\ WatchUnchanged

\* tokio broadcast, Sender::send as the one receiver of the listener sees it: the
\* channel keeps the last ReloadCapacity values; a value sent to a full channel
\* overwrites the oldest one the receiver has not read yet.
BroadcastSend(q, ev) ==
  IF Len(q) < ReloadCapacity THEN Append(q, ev) ELSE Append(Tail(q), ev)

\* The number of values the receiver has missed, after a send.
BroadcastLag(q, missed) == IF Len(q) < ReloadCapacity THEN missed ELSE missed + 1

\* The end of a reload attempt in reload_state: the event is sent and the guard dropped.
EndAttempt(event) ==
  /\ reloadQ' = BroadcastSend(reloadQ, event)
  /\ lag' = BroadcastLag(reloadQ, lag)
  /\ stateLock' = "none"
  /\ wloaded' = None
  /\ wpc' = "recv"
  /\ hist' = IF hist.willCover THEN [hist EXCEPT !.owed = FALSE] ELSE hist

\* reload_state: state.lock().await, then AppState::reload's first step,
\* load_from_path (it reads the file).
WatchLoad ==
  /\ Runs("watch")
  /\ wpc = "lock"
  /\ CanAcquire(stateLock)
  /\ attempts' = attempts + 1
  /\ \E ord \in OrdersOf(PathContent) :
       LET r == load_from_path(PathContent, ord) IN
         IF r.ok
           THEN /\ wloaded' = Some(Unwrap(r.val) @@ [gen |-> attempts'])
                /\ app' = AfterLoad(app, Unwrap(wloaded'))
                /\ stateLock' = "watch"
                /\ wpc' = "compile"
                /\ UNCHANGED <<reloadQ, lag, hist>>
           ELSE /\ EndAttempt(Failed(AppStateError("Load", Unwrap(r.err))))
                /\ UNCHANGED app
  /\ UNCHANGED <<notifyQ, deadline>>
  /\ WatchUnchanged

\* AppState::reload's second step, compile_cache_from_path (it reads the file
\* again), the two assignments, and reload_state's send.
WatchCompile ==
  /\ Runs("watch")
  /\ wpc = "compile"
  /\ \E ord \in OrdersOf(PathContent) :
       LET r == compile_cache_from_path(PathContent, ord) IN
         IF r.ok
           THEN /\ app' = StoreReload(app, Unwrap(wloaded), Unwrap(r.val) @@ [gen |-> attempts])
                /\ EndAttempt(Reloaded)
           ELSE /\ UNCHANGED app
                /\ EndAttempt(Failed(AppStateError("Compile", Unwrap(r.err))))
  /\ UNCHANGED <<notifyQ, deadline, attempts>>
  /\ WatchUnchanged

\* ------------------------------------------- fan-out (apply_cache_to_modules)

FanUnchanged ==
  UNCHANGED <<file, fsCount, notifyQ, deadline, wloaded, attempts, app, reloadQ, lag, note, exe,
              midiQ, midiCount, callCount, hist,
              down, live, arg, ret>>

FanLockMidi ==
  /\ Runs(fan.owner)
  /\ fan.pc = "midi_lock"
  /\ CanAcquire(midiLock)
  /\ midiLock' = fan.owner
  /\ fan' = [fan EXCEPT !.pc = "midi_apply"]
  /\ UNCHANGED <<wpc, stateLock, pc, consoleLock, execLock, midi, console, executor>>
  /\ FanUnchanged

FanApplyMidi ==
  /\ Runs(fan.owner)
  /\ fan.pc = "midi_apply"
  /\ midi' = MidiApplyCache(midi, Unwrap(fan.cache))
  /\ midiLock' = ReleaseAfterApply(fan.owner)
  /\ fan' = [fan EXCEPT !.pc = "console_lock"]
  /\ UNCHANGED <<wpc, stateLock, pc, consoleLock, execLock, console, executor>>
  /\ FanUnchanged

FanLockConsole ==
  /\ Runs(fan.owner)
  /\ fan.pc = "console_lock"
  /\ CanAcquire(consoleLock)
  /\ consoleLock' = fan.owner
  /\ fan' = [fan EXCEPT !.pc = "console_apply"]
  /\ UNCHANGED <<wpc, stateLock, pc, midiLock, execLock, midi, console, executor>>
  /\ FanUnchanged

FanApplyConsole ==
  /\ Runs(fan.owner)
  /\ fan.pc = "console_apply"
  /\ console' = ConsoleApplyCache(console, Unwrap(fan.cache))
  /\ consoleLock' = ReleaseAfterApply(fan.owner)
  /\ fan' = [fan EXCEPT !.pc = "exec_lock"]
  /\ UNCHANGED <<wpc, stateLock, pc, midiLock, execLock, midi, executor>>
  /\ FanUnchanged

FanLockExec ==
  /\ Runs(fan.owner)
  /\ fan.pc = "exec_lock"
  /\ CanAcquire(execLock)
  /\ execLock' = fan.owner
  /\ fan' = [fan EXCEPT !.pc = "exec_apply"]
  /\ UNCHANGED <<wpc, stateLock, pc, midiLock, consoleLock, midi, console, executor>>
  /\ FanUnchanged

\* The last step; the caller goes on: initialize drops the state guard and spawns
\* the watch task and the listener, the listener returns to its select!.
FanApplyExec ==
  /\ Runs(fan.owner)
  /\ fan.pc = "exec_apply"
  /\ \E order \in Perms(DOMAIN MacroTable(Unwrap(fan.cache).bundle)) :
       executor' = ExecutorApplyCache(executor, Unwrap(fan.cache), order)
  /\ execLock' = ReleaseAfterApply(fan.owner)
  /\ fan' = FanIdle
  /\ stateLock' = IF stateLock = fan.owner THEN "none" ELSE stateLock
  /\ wpc' = IF fan.owner = "init" THEN "recv" ELSE wpc
  /\ pc' = [pc EXCEPT !["listener"] = "select"]
  /\ UNCHANGED <<midiLock, consoleLock, midi, console>>
  /\ FanUnchanged

\* ------------------------------------------ listener task (runtime.rs 67-83)

ListenerUnchanged ==
  UNCHANGED <<file, fsCount, notifyQ, wpc, deadline, wloaded, attempts, app, midiLock,
              consoleLock, midi, console, midiCount, callCount,
              down, live, arg, ret>>

\* select!: Ok(event) = midi_rx_exec.recv(); the handler then waits for the executor.
ListenerRecvMidi ==
  /\ Runs("listener")
  /\ pc["listener"] \in {"select", "select_midi"}
  /\ midiQ # <<>>
  /\ Head(midiQ) # Lagged
  /\ note' = [note EXCEPT !["listener"] = Head(midiQ)]
  /\ midiQ' = Tail(midiQ)
  /\ pc' = [pc EXCEPT !["listener"] = "dispatch"]
  /\ UNCHANGED <<stateLock, reloadQ, lag, exe, fan, execLock, executor, hist>>
  /\ ListenerUnchanged

\* Variant: every ReloadEvent, Failed included, leads to a fan-out.
ListenerRecvReloadAnyEvent ==
  /\ Runs("listener")
  /\ pc["listener"] = "select"
  /\ lag = 0
  /\ reloadQ # <<>>
  /\ reloadQ' = Tail(reloadQ)
  /\ hist' = [hist EXCEPT !.got = @ + 1]
  /\ pc' = [pc EXCEPT !["listener"] = "clone"]
  /\ UNCHANGED <<stateLock, note, exe, fan, execLock, executor, midiQ, lag>>
  /\ ListenerUnchanged

\* select!: midi_rx_exec.recv() returns Err(RecvError::Lagged(n)): the pattern
\* Ok(event) does not match and the branch is disabled; this select! goes on
\* waiting for the reload branch alone, or, if that branch is disabled too,
\* runs `else => break` and the task ends.
ListenerRecvMidiLagged ==
  /\ Runs("listener")
  /\ pc["listener"] \in {"select", "select_midi"}
  /\ midiQ # <<>>
  /\ Head(midiQ) = Lagged
  /\ midiQ' = Tail(midiQ)
  /\ pc' = [pc EXCEPT !["listener"] = IF @ = "select" THEN "select_reload" ELSE "exited"]
  /\ UNCHANGED <<stateLock, reloadQ, lag, note, exe, fan, execLock, executor, hist>>
  /\ ListenerUnchanged

\* select!: Ok(event) = rx.recv(); only Reloaded leads to a fan-out.
ListenerRecvReload ==
  /\ Runs("listener")
  /\ pc["listener"] \in {"select", "select_reload"}
  /\ lag = 0
  /\ reloadQ # <<>>
  /\ reloadQ' = Tail(reloadQ)
  /\ hist' = [hist EXCEPT !.got = @ + 1]
  /\ pc' = [pc EXCEPT !["listener"] = IF Head(reloadQ).tag = "Reloaded" THEN "clone" ELSE "select"]
  /\ UNCHANGED <<stateLock, note, exe, fan, execLock, executor, midiQ, lag>>
  /\ ListenerUnchanged

\* select!: rx.recv() returns Err(RecvError::Lagged(n)): the pattern Ok(event)
\* does not match, the branch is disabled and this select! goes on waiting for
\* the MIDI branch alone; the receiver now stands at the oldest retained value.
\* If the MIDI branch is disabled too, `else => break` runs and the task ends.
ListenerRecvLagged ==
  /\ Runs("listener")
  /\ pc["listener"] \in {"select", "select_reload"}
  /\ lag > 0
  /\ lag' = 0
  /\ pc' = [pc EXCEPT !["listener"] = IF @ = "select" THEN "select_midi" ELSE "exited"]
  /\ UNCHANGED <<stateLock, reloadQ, note, exe, fan, execLock, executor, midiQ, hist>>
  /\ ListenerUnchanged

\* Variant: the listener fans out the snapshot that initialize stored, not the
\* one the state holds when the event is handled.
ListenerCloneInitial ==
  /\ Runs("listener")
  /\ pc["listener"] = "clone"
  /\ CanAcquire(stateLock)
  /\ \E o \in OrdersOf(TextDraft) :
       fan' = [pc |-> "midi_lock", owner |-> "listener",
               cache |-> Some(AppStateInitialize(TextDraft, o, o).compiled)]
  /\ stateLock' = StateLockAfterClone("listener")
  /\ pc' = [pc EXCEPT !["listener"] = "fanout"]
  /\ UNCHANGED <<reloadQ, lag, note, exe, execLock, executor, midiQ, hist>>
  /\ ListenerUnchanged

\* state_clone.lock().await; guard.compiled_cache().clone(); the guard is dropped.
ListenerClone ==
  /\ Runs("listener")
  /\ pc["listener"] = "clone"
  /\ CanAcquire(stateLock)
  /\ fan' = [pc |-> "midi_lock", owner |-> "listener", cache |-> Some(app.compiled)]
  /\ stateLock' = StateLockAfterClone("listener")
  /\ pc' = [pc EXCEPT !["listener"] = "fanout"]
  /\ UNCHANGED <<reloadQ, lag, note, exe, execLock, executor, midiQ, hist>>
  /\ ListenerUnchanged

\* --------------------------------------------- macro execution (executor)

\* The trigger tables Executor::apply_cache can build from a bundle.
TriggerTablesOf(bundle) ==
  {TriggerTable(MacroTable(bundle), order, 1, EmptyMap) :
     order \in Perms(DOMAIN MacroTable(bundle))}

\* The Executor's tables are a projection of the published snapshot.
ExecutorCurrent ==
  /\ executor.macros = MacroTable(app.compiled.bundle)
  /\ executor.triggers \in TriggerTablesOf(app.compiled.bundle)

\* No Reloaded event is waiting for the listener and no fan-out is under way.
NoFanoutPending ==
  /\ fan.pc = "idle"
  /\ pc["listener"] # "clone"
  /\ \A i \in 1..Len(reloadQ) : reloadQ[i].tag # "Reloaded"

\* execute_midi_event + the lookup of execute_macro: the id to run, if any.
Resolve(e, n) ==
  IF n \in DOMAIN e.triggers /\ e.triggers[n] \in DOMAIN e.macros
    THEN Some(e.triggers[n])
    ELSE None

ExecUnchanged ==
  UNCHANGED <<file, fsCount, notifyQ, wpc, deadline, wloaded, attempts, app, stateLock,
              reloadQ, lag, fan, midiLock, consoleLock, midi, console, midiQ, midiCount, hist,
              down, live, arg, ret>>

\* The embedding program calls RuntimeManager::trigger_midi(event).
ApiCall(n) ==
  /\ ~down
  /\ InitDone
  /\ pc["api"] = "idle"
  /\ callCount < MaxCalls
  /\ callCount' = callCount + 1
  /\ note' = [note EXCEPT !["api"] = n]
  /\ pc' = [pc EXCEPT !["api"] = "dispatch"]
  /\ UNCHANGED <<exe, execLock, executor>>
  /\ ExecUnchanged

\* executor.lock().await, execute_midi_event, and execute_macro up to its first
\* step: the entry is looked up and last_actions cleared.  An unmapped note
\* returns false and the guard is dropped.
Dispatch(t) ==
  /\ Runs(t)
  /\ pc[t] = "dispatch"
  /\ CanAcquire(execLock)
  /\ LET id == Resolve(executor, note[t]) IN
       IF IsSome(id)
         THEN /\ execLock' = t
              /\ executor' = [executor EXCEPT !.last_actions = <<>>]
              /\ exe' = [exe EXCEPT ![t] = [id |-> Unwrap(id), idx |-> 0,
                                            entry |-> Some(executor.macros[Unwrap(id)]),
                                            tabGen |-> executor.gen,
                                            pubGen |-> app.compiled.gen,
                                            current |-> ExecutorCurrent,
                                            quiet |-> NoFanoutPending]]
              /\ pc' = [pc EXCEPT ![t] = "running"]
         ELSE /\ pc' = [pc EXCEPT ![t] = Home(t)]
              /\ UNCHANGED <<execLock, executor, exe>>
  /\ UNCHANGED <<note, callCount>>
  /\ ExecUnchanged

\* The step the running execution of t performs next: read from the macro table.
NextStep(e, frame) == e.macros[frame.id].steps[frame.idx + 1]

\* One iteration of execute_macro's loop: the step is performed and logged.
ExecStep(t) ==
  /\ Runs(t)
  /\ pc[t] = "running"
  /\ exe[t].id \in DOMAIN executor.macros
  /\ exe[t].idx < Len(executor.macros[exe[t].id].steps)
  /\ executor' = [executor EXCEPT !.last_actions = Append(@, ActionLog(NextStep(executor, exe[t])))]
  /\ exe' = [exe EXCEPT ![t].idx = @ + 1]
  /\ UNCHANGED <<pc, note, execLock, callCount>>
  /\ ExecUnchanged

\* The loop is over: execute_macro returns true and the executor guard is dropped.
ExecFinish(t) ==
  /\ Runs(t)
  /\ pc[t] = "running"
  /\ exe[t].id \in DOMAIN executor.macros => exe[t].idx >= Len(executor.macros[exe[t].id].steps)
  /\ execLock' = "none"
  /\ exe' = [exe EXCEPT ![t] = NoFrame]
  /\ pc' = [pc EXCEPT ![t] = Home(t)]
  /\ UNCHANGED <<note, executor, callCount>>
  /\ ExecUnchanged

\* ------------------------------------------------------- specification

Watch == WatchRecvIdle \/ WatchRecvDebouncing \/ WatchTimer \/ WatchLoad \/ WatchCompile

Fanout ==
  FanLockMidi \/ FanApplyMidi \/ FanLockConsole \/ FanApplyConsole \/ FanLockExec \/ FanApplyExec

Listener == ListenerRecvMidi \/ ListenerRecvReload \/ ListenerClone

Execute == \E t \in Tasks : Dispatch(t) \/ ExecStep(t) \/ ExecFinish(t)

Env ==
  \/ \E t \in Texts : FsWrite(t)
  \/ FsRemove
  \/ \E k \in NoticeKinds : FsNotice(k)
  \/ FsError
  \/ \E n \in Notes : MidiIn(n)
  \/ \E n \in Notes : ApiCall(n)

Next == Env \/ Tick \/ Watch \/ Fanout \/ Listener \/ Execute

Spec == Init /\ [][Next]_vars

\* The tokio runtime polls every task that can make progress, and time passes;
\* the environment (file writes, MIDI input, API calls) is under no obligation.
FairSpec ==
  Spec /\ WF_vars(Tick) /\ WF_vars(Watch) /\ WF_vars(Fanout) /\ WF_vars(Listener)
       /\ WF_vars(Execute)

\* The program while the file is rewritten again and again and the listener is
\* slow: every recompile succeeds and sends Reloaded.
ChannelNext ==
  \/ Touch
  \/ Tick
  \/ WatchRecvIdle \/ WatchTimer \/ WatchLoad \/ WatchCompile
  \/ Fanout
  \/ ListenerRecvReload \/ ListenerRecvLagged \/ ListenerClone

ChannelSpec == Init /\ [][ChannelNext]_vars

\* The program while a macro execution of the listener lasts: the file is
\* rewritten again and again, then a burst of MIDI events arrives.
OverflowNext ==
  \/ MidiIn(60)
  \/ TouchWhileRunning
  \/ MidiFlood
  \/ Tick
  \/ WatchRecvIdle \/ WatchTimer \/ WatchLoad \/ WatchCompile
  \/ Fanout
  \/ ListenerRecvMidi \/ ListenerRecvMidiLagged
  \/ ListenerRecvReload \/ ListenerRecvLagged \/ ListenerClone
  \/ Dispatch("listener") \/ ExecStep("listener") \/ ExecFinish("listener")

OverflowSpec == Init /\ [][OverflowNext]_vars

\* The program and its shutdown.
DownNext == Next \/ Shutdown \/ \E t \in {"watch", "listener"} : Suspend(t)

DownSpec == Init /\ [][DownNext]_vars

\* The program with no MIDI input and no trigger_midi call, and a watcher that
\* can report one more error.
WatchNext ==
  \/ \E t \in Texts : FsWrite(t)
  \/ FsRemove
  \/ \E k \in NoticeKinds : FsNotice(k)
  \/ WatcherError
  \/ Tick
  \/ Watch
  \/ Fanout
  \/ ListenerRecvReload \/ ListenerClone

WatchSpec == Init /\ [][WatchNext]_vars

\* ------------------------------------------------------------ properties

LoadOk(f) == \E ord \in OrdersOf(f) : load_from_path(f, ord).ok
CompileOk(f) == \E ord \in OrdersOf(f) : compile_cache_from_path(f, ord).ok

\* The cause of a failed step on content f, as the error reports it.
FailureKind(step, f) ==
  IF f = NoFile THEN (IF step = "Load" THEN "Io" ELSE "Build")
  ELSE IF ~IsSome(parse_config_str(f)) THEN (IF step = "Load" THEN "Parse" ELSE "Build")
  ELSE "Validation"

\* reloadQ' is reloadQ with exactly one Failed appended, carrying the error of
\* `step` on the content f: its kind, and for a validation failure the full
\* diagnostic list of some iteration order, with an Error in it.
OneFailedAppended(step, f) ==
  /\ Len(reloadQ') = Len(reloadQ) + 1
  /\ SubSeq(reloadQ', 1, Len(reloadQ)) = reloadQ
  /\ LET ev == reloadQ'[Len(reloadQ')] IN
       /\ ev.tag = "Failed"
       /\ Unwrap(ev.error).step = step
       /\ Unwrap(ev.error).kind = FailureKind(step, f)
       /\ FailureKind(step, f) = "Validation" =>
            /\ HasError(Unwrap(ev.error).diagnostics)
            /\ \E ord \in OrdersOf(f) :
                 Unwrap(ev.error).diagnostics = validate_config(Unwrap(parse_config_str(f)), ord)

\* C1: a recompile attempt that fails, in the load step or in the compile step,
\* leaves AppState.loaded and AppState.compiled as they were before the attempt
\* and emits exactly one Failed carrying the error, and no Reloaded.  The load
\* step of an attempt, failing or not, never touches the state, and the state
\* changes only in a step that emits Reloaded.
C1_FailedReloadKeepsState ==
  [][/\ (wpc = "lock" /\ wpc' # "lock") =>
          /\ app' = app
          /\ IF LoadOk(file) THEN wpc' = "compile" /\ reloadQ' = reloadQ
                             ELSE wpc' = "recv" /\ OneFailedAppended("Load", file)
     /\ (wpc = "compile" /\ wpc' # "compile" /\ ~CompileOk(file)) =>
          /\ app' = app
          /\ OneFailedAppended("Compile", file)
     /\ app' # app => reloadQ' = Append(reloadQ, Reloaded)
    ]_vars

\* C1 witness: an attempt whose load step succeeded has failed in its compile
\* step on an Error diagnostic; the state is still the initial one.
C1_Witness ==
  /\ reloadQ # <<>>
  /\ reloadQ[Len(reloadQ)].tag = "Failed"
  /\ Unwrap(reloadQ[Len(reloadQ)].error).step = "Compile"
  /\ Unwrap(reloadQ[Len(reloadQ)].error).kind = "Validation"
  /\ attempts = 1
  /\ app.loaded.gen = 0 /\ app.compiled.gen = 0

\* C6: whenever the AppState mutex can be acquired, the Document and the bundle
\* it guards were stored by the same successful reload (or by initialization).
C6_LoadedAndCompiledSameReload ==
  CanAcquire(stateLock) => app.loaded.gen = app.compiled.gen

\* C6 witness: the listener is about to lock the state and clone the snapshot
\* of a reload, with the mutex free.
C6_Witness ==
  /\ pc["listener"] = "clone"
  /\ stateLock = "none"
  /\ app.loaded.gen >= 1
  /\ app.loaded.gen = app.compiled.gen

\* The watch task handles, in Debouncing, a relevant notification.
HandlesRelevantInDebouncing ==
  /\ wpc = "recv"
  /\ IsSome(deadline)
  /\ notifyQ # <<>>
  /\ Head(notifyQ).ok /\ is_relevant(Head(notifyQ).kind)
  /\ notifyQ' = Tail(notifyQ)

C4_CompiledFromCurrentContent ==
  [][reloadQ' = Append(reloadQ, Reloaded) =>
       /\ app'.compiled.bundle.header.source_hash = xxh3_64(file)
       /\ \E ord \in OrdersOf(file) :
            /\ compile_cache_from_path(file, ord).ok
            /\ app'.compiled =
                 Unwrap(compile_cache_from_path(file, ord).val) @@ [gen |-> attempts]
    ]_vars

\* C4 witness: the published bundle is that of the current content, which is
\* not the content present when the first event of the burst arrived.
C4_Witness ==
  /\ app.compiled.gen = 1 /\ attempts = 1 /\ hist.arms = 1
  /\ wpc = "recv"
  /\ hist.burstContent # file
  /\ app.compiled.bundle.header.source_hash = xxh3_64(file)

\* The consumer mutexes the running fan-out holds.
FanHeld ==
  {l \in {"midi", "console", "exec"} :
     \/ l = "midi" /\ midiLock = fan.owner
     \/ l = "console" /\ consoleLock = fan.owner
     \/ l = "exec" /\ execLock = fan.owner}

\* C8: a fan-out updates MidiManager, then ConsoleManager, then Executor; it
\* holds the mutex of the consumer it is updating and no other, and none while
\* it waits for the next; a consumer changes only in its own step of a fan-out.
C8_FanoutOrderOneLock ==
  /\ [](fan.pc # "idle" =>
          /\ fan.pc \in {"midi_lock", "console_lock", "exec_lock"} => FanHeld = {}
          /\ fan.pc = "midi_apply" => FanHeld = {"midi"}
          /\ fan.pc = "console_apply" => FanHeld = {"console"}
          /\ fan.pc = "exec_apply" => FanHeld = {"exec"}
          /\ fan.pc \in {"console_lock", "console_apply", "exec_lock", "exec_apply"} =>
               midi = MidiApplyCache(midi, Unwrap(fan.cache))
          /\ fan.pc \in {"exec_lock", "exec_apply"} =>
               console = ConsoleApplyCache(console, Unwrap(fan.cache)))
  /\ [][/\ midi' # midi => (fan.pc = "midi_apply" /\ fan'.pc = "console_lock")
        /\ console' # console => (fan.pc = "console_apply" /\ fan'.pc = "exec_lock")
        /\ (executor'.macros # executor.macros \/ executor'.triggers # executor.triggers) =>
             (fan.pc = "exec_apply" /\ fan'.pc = "idle")
       ]_vars

\* C8 witness: a fan-out of the listener has updated MidiManager and
\* ConsoleManager with a reloaded bundle and holds only the Executor mutex.
C8_Witness ==
  /\ fan.owner = "listener" /\ fan.pc = "exec_apply"
  /\ execLock = "listener" /\ midiLock = "none" /\ consoleLock = "none"
  /\ midi.gen >= 1 /\ console.gen >= 1 /\ executor.gen < midi.gen

\* C9: a running execution performs the steps of the one macro entry it was
\* dispatched on: the entry stays in the macro table unchanged while it runs, the
\* steps logged so far are the first idx steps of that entry, and it ends only
\* after the last step (no reload cancels it or replaces its steps).
C9_ExecutionNotTorn ==
  /\ [](\A t \in Tasks : pc[t] = "running" =>
          /\ execLock = t
          /\ exe[t].id \in DOMAIN executor.macros
          /\ executor.macros[exe[t].id] = Unwrap(exe[t].entry)
          /\ exe[t].idx <= Len(Unwrap(exe[t].entry).steps)
          /\ executor.last_actions = SubSeq(Unwrap(exe[t].entry).steps, 1, exe[t].idx))
  /\ [][\A t \in Tasks : (pc[t] = "running" /\ pc'[t] # "running") =>
          /\ exe[t].idx = Len(Unwrap(exe[t].entry).steps)
          /\ executor'.last_actions = Unwrap(exe[t].entry).steps
       ]_vars

\* C9 witness: an execution is between two steps of an entry of the initial
\* bundle while a reload has been published and its fan-out waits for the
\* Executor mutex.
C9_Witness ==
  /\ pc["api"] = "running"
  /\ exe["api"].idx = 1
  /\ exe["api"].tabGen = 0
  /\ app.compiled.gen >= 1
  /\ fan.pc = "exec_lock" /\ fan.owner = "listener"
  /\ Unwrap(fan.cache).bundle # app.compiled.bundle \/ executor.macros # MacroTable(app.compiled.bundle)

\* A published snapshot still has its fan-out ahead or under way.
FanoutPending ==
  \/ \E i \in 1..Len(reloadQ) : reloadQ[i].tag = "Reloaded"
  \/ pc["listener"] \in {"clone", "fanout"}

\* C7 as stated: between the replacement of the snapshot and the completion of
\* its fan-out no reload replaces the published snapshot.
C7_Orig ==
  [][FanoutPending => app'.compiled = app.compiled]_vars

\* C7 as amended: the snapshot is replaced, and Reloaded emitted, under the state
\* lock held by the watch task; the fan-out of a reload runs later, in the
\* listener, on a clone of the snapshot taken under the state lock, and the
\* listener holds the state lock at no point of that fan-out; only the fan-out of
\* initialize runs under the state lock.
C7_FanoutOutsideStateLock ==
  /\ [](/\ (fan.pc # "idle" /\ fan.owner = "init") => stateLock = "init"
        /\ (fan.pc # "idle" /\ fan.owner = "listener") =>
             (stateLock # "listener" /\ pc["listener"] = "fanout")
        /\ stateLock = "watch" <=> wpc = "compile")
  /\ [][/\ app' # app =>
             /\ stateLock = "watch" /\ stateLock' = "none"
             /\ reloadQ' = Append(reloadQ, Reloaded)
        /\ (pc["listener"] = "clone" /\ pc'["listener"] = "fanout") =>
             /\ stateLock = "none" /\ stateLock' = "none"
             /\ fan'.cache = Some(app.compiled)
       ]_vars

\* C7 witness: while the listener's fan-out of one snapshot is under way, a
\* later reload has replaced the published snapshot.
C7_Witness ==
  /\ fan.owner = "listener" /\ fan.pc \in {"console_lock", "console_apply", "exec_lock"}
  /\ Unwrap(fan.cache).gen = 1
  /\ app.compiled.gen = 2
  /\ stateLock = "none"

\* C10 as stated: a dispatch that begins once a reload has been published
\* resolves its trigger and its steps from the published bundle.
C10_Orig ==
  \A t \in Tasks :
    (pc[t] = "running" /\ exe[t].pubGen >= 1) => exe[t].current

\* C10 as amended: a dispatch that begins once the fan-out of the published
\* reload has updated the Executor resolves its trigger and its steps from
\* the published bundle (before that it resolves from the bundle the Executor
\* was last given).
C10_DispatchAfterFanout ==
  \A t \in Tasks :
    (pc[t] = "running" /\ exe[t].tabGen = exe[t].pubGen) =>
      exe[t].current

\* C10 witness: after a reload and its fan-out, a note bound to a macro that the
\* reload added is dispatched and runs that macro.
C10_Witness ==
  \E t \in Tasks :
    /\ pc[t] = "running"
    /\ exe[t].tabGen = exe[t].pubGen /\ exe[t].pubGen >= 1
    /\ exe[t].id = "b" /\ note[t] = 61

\* The published snapshot is the bundle of the current file content and the
\* three consumers hold its projections.
Synced ==
  /\ app.compiled.bundle.header.source_hash = xxh3_64(file)
  /\ midi = MidiApplyCache(midi, app.compiled)
  /\ console = ConsoleApplyCache(console, app.compiled)
  /\ ExecutorCurrent

\* C3: a relevant event delivered to the running watch task is eventually
\* followed by a recompilation attempt that started after it and ended with a
\* Reloaded or a Failed event.
C3_Orig == hist.owed ~> ~hist.owed

\* C5: once the file holds valid content, a relevant event for it has been
\* delivered and the file no longer changes, the snapshot and the three
\* consumers eventually reflect the final content.
C5_Orig ==
  (hist.owed /\ fsCount = MaxFsEvents /\ CompileOk(file)) ~> Synced

\* C11: a fan-out never has to wait for a macro execution: when it comes to the
\* Executor, no execution is in progress (holding the executor mutex).
C11_Orig ==
  (fan.pc = "exec_lock" /\ fan.owner = "listener") =>
     (CanAcquire(execLock) /\ \A t \in Tasks : pc[t] # "running")

\* The caches of the texts whose validation reports no Error.
CleanCacheSet ==
  UNION {{[bundle |-> assemble_bundle(Unwrap(parse_config_str(f)), f, ord),
           diagnostics |-> validate_config(Unwrap(parse_config_str(f)), ord),
           gen |-> 0] :
            ord \in {o \in OrdersOf(f) : ~HasError(validate_config(Unwrap(parse_config_str(f)), o))}} :
         f \in {t \in Texts : IsSome(parse_config_str(t))}}

\* The same caches, stamped g.
CleanCaches(g) == {[c EXCEPT !.gen = g] : c \in CleanCacheSet}

\* C12: each consumer holds its initial empty value or the projection of a
\* bundle whose validation reported no Error; receiving a Failed event starts no
\* fan-out and changes no consumer, and a consumer changes only in a fan-out.
C12_ConsumersOnlyValidBundles ==
  /\ [](/\ midi = MidiManagerNew
           \/ \E c \in CleanCaches(midi.gen) : midi = MidiApplyCache(MidiManagerNew, c)
        /\ console = ConsoleManagerNew
           \/ /\ ~HasError(console.diagnostics)
              /\ \E c \in CleanCaches(console.gen) : console = ConsoleApplyCache(ConsoleManagerNew, c)
        /\ (executor.macros = ExecutorNew.macros /\ executor.triggers = ExecutorNew.triggers)
           \/ \E c \in CleanCaches(executor.gen) :
                /\ executor.macros = MacroTable(c.bundle)
                /\ executor.triggers \in TriggerTablesOf(c.bundle))
  /\ [][/\ (pc["listener"] = "select" /\ reloadQ # <<>> /\ Head(reloadQ).tag = "Failed"
              /\ reloadQ' = Tail(reloadQ)) =>
             (pc'["listener"] = "select" /\ fan' = fan
                /\ midi' = midi /\ console' = console /\ executor' = executor)
        /\ (midi' # midi \/ console' # console \/ executor'.macros # executor.macros
              \/ executor'.triggers # executor.triggers) => fan.pc # "idle"
       ]_vars

\* C12 witness: the first recompile failed and its Failed event was received,
\* the second succeeded and its bundle has reached all three consumers.
C12_Witness ==
  /\ attempts = 2 /\ app.compiled.gen = 2
  /\ hist.got = 2
  /\ midi.gen = 2 /\ console.gen = 2 /\ executor.gen = 2

\* The ReloadEvents sent so far (an attempt in its compile step has not sent yet).
EventsSent == attempts - (IF wpc = "compile" THEN 1 ELSE 0)

\* C13: every ReloadEvent sent has been received by the listener or is still
\* waiting in its receiver.
C13_Orig == EventsSent = hist.got + Len(reloadQ)

\* No attempt is running and the last one failed.
LastAttemptFailed ==
  /\ attempts >= 1
  /\ wpc \notin {"lock", "compile"}
  /\ app.compiled.gen # attempts

\* C14: after a failed recompile the watch task is idle or debouncing, never
\* gone: a relevant event delivered since then and not yet covered by an attempt
\* still has a running task to recompile for it.
C14_Orig ==
  (LastAttemptFailed /\ hist.owed) => wpc = "recv"

\* C15: an Ok notification taken by the watch task arms or re-arms the debounce
\* timer when it is a content modification, a creation or a removal, and leaves
\* the timer as it was when it is a metadata-only or an access event.
C15_Orig ==
  [][(/\ wpc = "recv"
      /\ notifyQ # <<>>
      /\ Head(notifyQ).ok
      /\ notifyQ' = Tail(notifyQ))
        => deadline' = IF Head(notifyQ).kind \in {"ModifyData", "Create", "Remove"}
                         THEN Some(Debounce)
                         ELSE deadline]_vars

NotesOf(cache) ==
  {Unwrap(cache.bundle.macros[k].trigger) :
     k \in {j \in 1..Len(cache.bundle.macros) : IsSome(cache.bundle.macros[j].trigger)}}

\* C17: after apply_cache(c1) and then apply_cache(c2), each consumer holds what
\* apply_cache(c2) gives on a fresh consumer (for the Executor: one of the
\* trigger tables the HashMap iteration can give for c2): nothing of c1 survives.
C17_SecondApplyReplaces ==
  (arg.op = "apply" /\ arg.n = 2) =>
     /\ midi = MidiApplyCache(MidiManagerNew, arg.caches[2])
     /\ console = ConsoleApplyCache(ConsoleManagerNew, arg.caches[2])
     /\ executor \in {ExecutorApplyCache(ExecutorNew, arg.caches[2], o) :
                        o \in Perms(DOMAIN MacroTable(arg.caches[2].bundle))}

\* Both caches were applied; the first had a macro id, a trigger note, a device
\* and a widget warning that the second has not.
C17_Witness ==
  /\ arg.op = "apply" /\ arg.n = 2
  /\ LET c1 == arg.caches[1]
         c2 == arg.caches[2]
     IN /\ \E k \in 1..Len(c1.bundle.macros) : c1.bundle.macros[k].id \notin DOMAIN MacroTable(c2.bundle)
        /\ NotesOf(c1) \ NotesOf(c2) # {}
        /\ c1.bundle.devices # <<>> /\ c2.bundle.devices = <<>>
        /\ WarningCache(c1.bundle.devices, c1.diagnostics, 1) # <<>>
        /\ c2.bundle.macros # <<>>

\* What a call returned agrees with one validation run of the text: it succeeded
\* exactly when that run reported no Error, a success carries the run's
\* diagnostics, a failure is Validation with the run's full list and no value.
AgreesWithValidation(result, text) ==
  \E o \in OrdersOf(text) :
    LET diagnostics == validate_config(Unwrap(parse_config_str(text)), o)
    IN /\ result.ok <=> ~HasError(diagnostics)
       /\ result.ok => Unwrap(result.val).diagnostics = diagnostics
       /\ ~result.ok => /\ result.val = None
                        /\ Unwrap(result.err).kind = "Validation"
                        /\ Unwrap(result.err).diagnostics = diagnostics

\* C18: for a text that parses, compile_cache_from_str and load_from_str succeed
\* exactly when validation reports no Error; they fail with the full diagnostic
\* list and no bundle; both succeed or both fail, warnings alone never fail.
C18_SuccessIffNoError ==
  (arg.op = "compile" /\ arg.n = 1 /\ IsSome(parse_config_str(arg.text))) =>
     /\ AgreesWithValidation(ret.first, arg.text)
     /\ AgreesWithValidation(ret.second, arg.text)
     /\ AgreesWithValidation(ret.loaded, arg.text)
     /\ ret.first.ok = ret.loaded.ok
     /\ ret.second.ok = ret.loaded.ok
     /\ (\A o \in OrdersOf(arg.text) :
           \A i \in 1..Len(validate_config(Unwrap(parse_config_str(arg.text)), o)) :
             validate_config(Unwrap(parse_config_str(arg.text)), o)[i].severity # "Error")
          => ret.first.ok /\ ret.loaded.ok

\* A text with an Error and a Warning was compiled and loaded: both calls failed
\* and returned both diagnostics.
C18_Witness ==
  /\ arg.op = "compile" /\ arg.n = 1
  /\ ~ret.first.ok /\ ~ret.loaded.ok
  /\ \E i, j \in 1..Len(Unwrap(ret.first.err).diagnostics) :
       /\ Unwrap(ret.first.err).diagnostics[i].severity = "Error"
       /\ Unwrap(ret.first.err).diagnostics[j].severity = "Warning"
  /\ \E j \in 1..Len(Unwrap(ret.loaded.err).diagnostics) :
       Unwrap(ret.loaded.err).diagnostics[j].severity = "Warning"

\* The ids of the entries of a bundle's macros, in order.
BundleIds(bundle) == [k \in 1..Len(bundle.macros) |-> bundle.macros[k].id]

\* C19: the macro ids of a successfully compiled bundle are exactly the ids of
\* the document's macros whose status is Ready, each once: no Draft macro and no
\* macro without status is among them, and they are at most as many as the
\* document's macros.
C19_BundleHoldsReadyMacros ==
  (arg.op = "compile" /\ arg.n = 1 /\ ret.first.ok) =>
     LET config == Unwrap(parse_config_str(arg.text))
         ids == BundleIds(Unwrap(ret.first.val).bundle)
     IN /\ {ids[k] : k \in 1..Len(ids)} =
             {id \in DOMAIN config.macros : config.macros[id].status = "Ready"}
        /\ \A j, k \in 1..Len(ids) : ids[j] = ids[k] => j = k
        /\ Len(ids) <= Cardinality(DOMAIN config.macros)
        /\ arg.text \in GenTexts =>
             \A k \in 1..Len(ids) : DocOf(arg.text).macros[ids[k]].status = "Ready"

\* A document with a Ready macro and a macro without status was compiled: the
\* bundle holds one macro.
C19_Witness ==
  /\ arg.op = "compile" /\ arg.n = 1 /\ ret.first.ok
  /\ arg.text \in GenTexts
  /\ \E x, y \in DOMAIN DocOf(arg.text).macros :
       /\ DocOf(arg.text).macros[x].status = "Ready"
       /\ DocOf(arg.text).macros[y].status = "Omitted"
  /\ Len(Unwrap(ret.first.val).bundle.macros) = 1

\* C20: two compilations of one text give the same bundle (the model's bundle
\* has every field but header.generated_at), the order of its macros included.
C20_Orig ==
  (arg.op = "compile" /\ arg.n = 1 /\ ret.first.ok /\ ret.second.ok) =>
     Unwrap(ret.first.val).bundle = Unwrap(ret.second.val).bundle

\* A LayoutWidget carries the id, the tap behaviour and the action of a Widget.
SameWidget(layout, widget) ==
  /\ layout.id = widget.id
  /\ layout.tap_behavior = widget.tap_behavior
  /\ IsSome(layout.action) = IsSome(widget.action)
  /\ IsSome(widget.action) =>
       /\ Unwrap(layout.action).type = Unwrap(widget.action).type
       /\ Unwrap(layout.action).id = Unwrap(widget.action).ref

\* A DeviceLayout carries the hardware id, the pages in order and the widgets of
\* each page in order of a Device.
SameDevice(layout, device) ==
  /\ layout.hardware_id = device.hardware_id
  /\ Len(layout.pages) = Len(device.pages)
  /\ \A p \in 1..Len(device.pages) :
       /\ layout.pages[p].name = device.pages[p].name
       /\ Len(layout.pages[p].widgets) = Len(device.pages[p].widgets)
       /\ \A w \in 1..Len(device.pages[p].widgets) :
            SameWidget(layout.pages[p].widgets[w], device.pages[p].widgets[w])

\* C21: the devices of a compiled bundle are the devices of the document, one
\* DeviceLayout each, in strictly ascending order of device id, with hardware
\* id, pages, widgets, tap behaviours and action references unchanged.
C21_DevicesSortedAndPreserved ==
  (arg.op = "compile" /\ arg.n = 1 /\ ret.first.ok) =>
     LET config == Unwrap(parse_config_str(arg.text))
         devices == Unwrap(ret.first.val).bundle.devices
     IN /\ Len(devices) = Cardinality(DOMAIN config.devices)
        /\ {devices[k].id : k \in 1..Len(devices)} = DOMAIN config.devices
        /\ \A j, k \in 1..Len(devices) :
             j < k => DeviceRank(devices[j].id) < DeviceRank(devices[k].id)
        /\ \A k \in 1..Len(devices) : SameDevice(devices[k], config.devices[devices[k].id])

\* A document with three devices, two pages and two widgets on a page was
\* compiled.
C21_Witness ==
  /\ arg.op = "compile" /\ arg.n = 1 /\ ret.first.ok
  /\ LET devices == Unwrap(ret.first.val).bundle.devices
     IN /\ Len(devices) = 3
        /\ Len(devices[1].pages) = 2
        /\ Len(devices[1].pages[1].widgets) = 2
        /\ IsSome(devices[1].pages[1].widgets[1].tap_behavior)

\* The diagnostics one validation run of a text gives.
DiagnosticsOf(text, o) == validate_config(Unwrap(parse_config_str(text)), o)

\* The widgets of a config whose action names a macro that is defined and Draft,
\* as <<device id, page, widget>> positions.
DraftReferences(config) ==
  {x \in (DOMAIN config.devices) \X (1..2) \X (1..2) :
     /\ x[2] <= Len(config.devices[x[1]].pages)
     /\ x[3] <= Len(config.devices[x[1]].pages[x[2]].widgets)
     /\ LET action == config.devices[x[1]].pages[x[2]].widgets[x[3]].action
        IN /\ IsSome(action)
           /\ Unwrap(action).type = "macro"
           /\ Unwrap(action).ref \in DOMAIN config.macros
           /\ config.macros[Unwrap(action).ref].status = "Draft"}

\* Every finding of every validation run of the text is about a widget whose
\* action names a Draft macro, and there is such a widget.
OnlyDraftReferenceFindings(text) ==
  /\ IsSome(parse_config_str(text))
  /\ DraftReferences(Unwrap(parse_config_str(text))) # {}
  /\ \A o \in OrdersOf(text) :
       \A i \in 1..Len(DiagnosticsOf(text, o)) :
         /\ IsWidgetPath(DiagnosticsOf(text, o)[i].path)
         /\ DiagnosticsOf(text, o)[i].message[1] =
              "References macro that is not marked ready and will not be compiled"

\* C22: a document whose only finding is a widget action on a Draft macro
\* compiles; the bundle's widget still names the macro, and the bundle has no
\* macro of that id.
C22_DraftReferenceDangles ==
  (arg.op = "compile" /\ arg.n = 1 /\ OnlyDraftReferenceFindings(arg.text)) =>
     /\ ret.first.ok
     /\ LET config == Unwrap(parse_config_str(arg.text))
            bundle == Unwrap(ret.first.val).bundle
        IN \A x \in DraftReferences(config) :
             \E d \in 1..Len(bundle.devices) :
               /\ bundle.devices[d].id = x[1]
               /\ LET layout == bundle.devices[d].pages[x[2]].widgets[x[3]]
                      widget == config.devices[x[1]].pages[x[2]].widgets[x[3]]
                  IN /\ layout.id = widget.id
                     /\ layout.action = Some([type |-> "macro", id |-> Unwrap(widget.action).ref])
                     /\ \A k \in 1..Len(bundle.macros) :
                          bundle.macros[k].id # Unwrap(widget.action).ref

\* Such a document, with a Ready macro beside the Draft one, was compiled.
C22_Witness ==
  /\ arg.op = "compile" /\ arg.n = 1
  /\ OnlyDraftReferenceFindings(arg.text)
  /\ ret.first.ok
  /\ Len(Unwrap(ret.first.val).bundle.macros) = 1
  /\ Len(Unwrap(ret.first.val).diagnostics) = 1

\* The conditions of C23 that do not concern hardware ids: version 1, widget ids
\* unique within a page, actions on existing macros and scripts, Ready macros
\* with a trigger in 0..127 (when they have one) and valid steps, scripts with a
\* body that is not blank.
WellFormedBesidesHardware(config) ==
  /\ config.version = 1
  /\ \A d \in DOMAIN config.devices :
       \A p \in 1..Len(config.devices[d].pages) :
         LET widgets == config.devices[d].pages[p].widgets
         IN /\ \A i, j \in 1..Len(widgets) : widgets[i].id = widgets[j].id => i = j
            /\ \A i \in 1..Len(widgets) :
                 IsSome(widgets[i].action) =>
                   Unwrap(widgets[i].action).ref \in
                     (IF Unwrap(widgets[i].action).type = "macro"
                        THEN DOMAIN config.macros ELSE DOMAIN config.scripts)
  /\ \A m \in DOMAIN config.macros :
       config.macros[m].status = "Ready" =>
         /\ IsSome(config.macros[m].trigger) => Unwrap(config.macros[m].trigger) <= MaxNote
         /\ \A k \in 1..Len(config.macros[m].steps) :
              LET step == config.macros[m].steps[k]
              IN IF step.type = "keystroke"
                   THEN /\ step.keys # <<>>
                        /\ \A x \in 1..Len(step.keys) : Trim(step.keys[x]) # ""
                   ELSE step.ms > 0
  /\ \A sc \in DOMAIN config.scripts : Trim(config.scripts[sc]) # ""

\* Every device has a hardware id that is not the empty string and differs, as
\* a string, from the hardware id of every other device.
HardwareIdsDistinct(config) ==
  /\ \A d \in DOMAIN config.devices :
       IsSome(config.devices[d].hardware_id) /\ Unwrap(config.devices[d].hardware_id) # ""
  /\ \A d, e \in DOMAIN config.devices :
       d # e => config.devices[d].hardware_id # config.devices[e].hardware_id

\* Every device has a hardware id that is not blank and differs, once trimmed,
\* from the trimmed hardware id of every other device.
HardwareIdsDistinctTrimmed(config) ==
  /\ \A d \in DOMAIN config.devices :
       /\ IsSome(config.devices[d].hardware_id)
       /\ Trim(Unwrap(config.devices[d].hardware_id)) # ""
  /\ \A d, e \in DOMAIN config.devices :
       d # e => Trim(Unwrap(config.devices[d].hardware_id)) #
                  Trim(Unwrap(config.devices[e].hardware_id))

\* No validation run of the text reports an Error, and the calls succeeded.
NoErrorAtAll(text) ==
  /\ \A o \in OrdersOf(text) : ~HasError(DiagnosticsOf(text, o))
  /\ ret.loaded.ok /\ ret.first.ok

\* C23 as stated: a document that meets the conditions, with hardware ids that
\* are non-empty and distinct, has no Error.
C23_Orig ==
  (/\ arg.op = "compile" /\ arg.n = 1 /\ IsSome(parse_config_str(arg.text))
   /\ WellFormedBesidesHardware(Unwrap(parse_config_str(arg.text)))
   /\ HardwareIdsDistinct(Unwrap(parse_config_str(arg.text))))
     => NoErrorAtAll(arg.text)

\* C23: a document that meets the conditions, with hardware ids that are not
\* blank and are distinct once surrounding whitespace is trimmed, has no Error.
C23_WellFormedHasNoError ==
  (/\ arg.op = "compile" /\ arg.n = 1 /\ IsSome(parse_config_str(arg.text))
   /\ WellFormedBesidesHardware(Unwrap(parse_config_str(arg.text)))
   /\ HardwareIdsDistinctTrimmed(Unwrap(parse_config_str(arg.text))))
     => NoErrorAtAll(arg.text)

\* A document with three devices, widgets with a macro and a script action, a
\* Ready macro and a script met the conditions and was validated.
C23_Witness ==
  /\ arg.op = "compile" /\ arg.n = 1 /\ IsSome(parse_config_str(arg.text))
  /\ LET config == Unwrap(parse_config_str(arg.text))
     IN /\ WellFormedBesidesHardware(config)
        /\ HardwareIdsDistinctTrimmed(config)
        /\ Cardinality(DOMAIN config.devices) = 3
        /\ DOMAIN config.scripts # {}
        /\ \E m \in DOMAIN config.macros : config.macros[m].status = "Ready"
  /\ ret.loaded.ok

\* The messages of the structural violations of a macro.
StructuralMessages ==
  {"Keystroke step must define at least one non-empty key",
   "Pause duration must be greater than zero",
   "Note trigger number must be between 0 and 127"}

\* C24: a diagnostic for a structural violation inside a macro is a Warning when
\* the macro is Draft and an Error when it is Ready; no diagnostic of a Draft
\* macro is an Error, so when load or compile fails some Error lies outside the
\* Draft macros.
C24_DraftDowngrades ==
  (arg.op = "compile" /\ arg.n = 1 /\ IsSome(parse_config_str(arg.text))) =>
     LET config == Unwrap(parse_config_str(arg.text))
         OfDraft(diag) == diag.path[1] = "macros" /\ config.macros[diag.path[2]].status = "Draft"
     IN /\ \A o \in OrdersOf(arg.text) :
             \A i \in 1..Len(DiagnosticsOf(arg.text, o)) :
               LET diag == DiagnosticsOf(arg.text, o)[i]
               IN /\ (diag.path[1] = "macros" /\ diag.message[1] \in StructuralMessages) =>
                       diag.severity = (IF OfDraft(diag) THEN "Warning" ELSE "Error")
                  /\ OfDraft(diag) => diag.severity # "Error"
        /\ (~ret.loaded.ok \/ ~ret.first.ok) =>
             \E i \in 1..Len(Unwrap(ret.loaded.err).diagnostics) :
               LET diag == Unwrap(ret.loaded.err).diagnostics[i]
               IN diag.severity = "Error" /\ ~OfDraft(diag)

\* A document with a Draft macro that has a trigger above 127 and a keystroke
\* without keys was loaded and compiled, and both succeeded with the warnings.
C24_Witness ==
  /\ arg.op = "compile" /\ arg.n = 1 /\ IsSome(parse_config_str(arg.text))
  /\ ret.loaded.ok /\ ret.first.ok
  /\ \E i, j \in 1..Len(Unwrap(ret.loaded.val).diagnostics) :
       /\ Unwrap(ret.loaded.val).diagnostics[i].message[1] =
            "Note trigger number must be between 0 and 127"
       /\ Unwrap(ret.loaded.val).diagnostics[j].message[1] =
            "Keystroke step must define at least one non-empty key"
       /\ Unwrap(ret.loaded.val).diagnostics[i].severity = "Warning"
       /\ Unwrap(ret.loaded.val).diagnostics[j].severity = "Warning"

\* The diagnostics a call returned, with its value or with its error.
ReturnedDiagnostics(result) ==
  IF result.ok THEN Unwrap(result.val).diagnostics ELSE Unwrap(result.err).diagnostics

\* The widgets of a config with an action on a macro and an id of their own on
\* their page, as <<device id, page, widget>> positions.
MacroWidgets(config) ==
  {x \in (DOMAIN config.devices) \X (1..2) \X (1..2) :
     /\ x[2] <= Len(config.devices[x[1]].pages)
     /\ x[3] <= Len(config.devices[x[1]].pages[x[2]].widgets)
     /\ LET widgets == config.devices[x[1]].pages[x[2]].widgets
        IN /\ IsSome(widgets[x[3]].action)
           /\ Unwrap(widgets[x[3]].action).type = "macro"
           /\ \A k \in 1..Len(widgets) : widgets[k].id = widgets[x[3]].id => k = x[3]}

\* The diagnostics of a list about the action of the widget at position x.
ActionDiagnostics(diagnostics, config, x) ==
  {i \in 1..Len(diagnostics) :
     /\ diagnostics[i].path =
          <<"devices", x[1], "pages", ToString(x[2] - 1), "widgets",
            config.devices[x[1]].pages[x[2]].widgets[x[3]].id>>
     /\ diagnostics[i].message[1] \in
          {"References undefined macro", "References undefined script",
           "References macro that is not marked ready and will not be compiled"}}

\* C25: for a widget whose action references a macro, validation gives exactly
\* one Error for the action when the macro is not defined, exactly one Warning
\* "not marked ready" and no Error when it is Draft, nothing when it is Ready.
C25_MacroReferenceDiagnostics ==
  (arg.op = "compile" /\ arg.n = 1 /\ IsSome(parse_config_str(arg.text))) =>
     LET config == Unwrap(parse_config_str(arg.text))
         diagnostics == ReturnedDiagnostics(ret.loaded)
     IN \A x \in MacroWidgets(config) :
          LET ref == Unwrap(config.devices[x[1]].pages[x[2]].widgets[x[3]].action).ref
              found == ActionDiagnostics(diagnostics, config, x)
          IN CASE ref \notin DOMAIN config.macros ->
                    /\ Cardinality(found) = 1
                    /\ \A i \in found :
                         /\ diagnostics[i].severity = "Error"
                         /\ diagnostics[i].message = <<"References undefined macro", ref>>
               [] ref \in DOMAIN config.macros /\ config.macros[ref].status = "Draft" ->
                    /\ Cardinality(found) = 1
                    /\ \A i \in found :
                         /\ diagnostics[i].severity = "Warning"
                         /\ diagnostics[i].message[1] =
                              "References macro that is not marked ready and will not be compiled"
               [] OTHER -> found = {}

\* A document with a widget on a macro that is not defined was validated.
C25_Witness ==
  /\ arg.op = "compile" /\ arg.n = 1 /\ IsSome(parse_config_str(arg.text))
  /\ LET config == Unwrap(parse_config_str(arg.text))
     IN \E x \in MacroWidgets(config) :
          /\ Unwrap(config.devices[x[1]].pages[x[2]].widgets[x[3]].action).ref
               \notin DOMAIN config.macros
          /\ config.version = 1
          /\ DOMAIN config.macros # {}
  /\ ~ret.loaded.ok

\* The diagnostics of a list that report a duplicate hardware id.
DuplicateHardwareDiagnostics(diagnostics) ==
  {i \in 1..Len(diagnostics) : diagnostics[i].message[1] = "Duplicate hardware_id also used by"}

\* C26: when exactly two devices have the same non-empty hardware id, validation
\* gives exactly one duplicate Error; its path is the device declared later and
\* its message names the device declared earlier.
C26_Orig ==
  (/\ arg.op = "compile" /\ arg.n = 1 /\ IsSome(parse_config_str(arg.text))
   /\ LET config == Unwrap(parse_config_str(arg.text))
      IN /\ Cardinality(DOMAIN config.devices) = 2
         /\ \A d \in DOMAIN config.devices :
              /\ IsSome(config.devices[d].hardware_id)
              /\ Trim(Unwrap(config.devices[d].hardware_id)) # ""
              /\ config.devices[d].hardware_id =
                   config.devices[DeclaredDevices(config)[1]].hardware_id)
     => LET config == Unwrap(parse_config_str(arg.text))
            diagnostics == ReturnedDiagnostics(ret.loaded)
            found == DuplicateHardwareDiagnostics(diagnostics)
        IN /\ Cardinality(found) = 1
           /\ \A i \in found :
                /\ diagnostics[i].severity = "Error"
                /\ diagnostics[i].path = <<"devices", DeclaredDevices(config)[2], "hardware_id">>
                /\ diagnostics[i].message[3] = DeclaredDevices(config)[1]

\* The diagnostics of a list that report the missing trigger of macro m.
MissingTriggerDiagnostics(diagnostics, m) ==
  {i \in 1..Len(diagnostics) :
     /\ diagnostics[i].path = <<"macros", m, "trigger">>
     /\ diagnostics[i].message = <<"Ready macro missing trigger">>}

\* C27: a Ready macro without trigger gets exactly one Warning "missing trigger"
\* and a Draft macro without trigger gets none; when the missing triggers are
\* the document's only findings, load and compile succeed and the Ready macros
\* without trigger are in the bundle.
C27_MissingTriggerWarns ==
  (arg.op = "compile" /\ arg.n = 1 /\ IsSome(parse_config_str(arg.text))) =>
     LET config == Unwrap(parse_config_str(arg.text))
         diagnostics == ReturnedDiagnostics(ret.loaded)
         untriggered == {m \in DOMAIN config.macros : ~IsSome(config.macros[m].trigger)}
     IN /\ \A m \in untriggered :
             LET found == MissingTriggerDiagnostics(diagnostics, m)
             IN /\ Cardinality(found) = (IF config.macros[m].status = "Ready" THEN 1 ELSE 0)
                /\ \A i \in found : diagnostics[i].severity = "Warning"
        /\ (\A i \in 1..Len(diagnostics) :
              diagnostics[i].message = <<"Ready macro missing trigger">>)
             => /\ ret.loaded.ok /\ ret.first.ok /\ ret.second.ok
                /\ \A m \in untriggered :
                     config.macros[m].status = "Ready" =>
                       \E k \in 1..Len(Unwrap(ret.first.val).bundle.macros) :
                         /\ Unwrap(ret.first.val).bundle.macros[k].id = m
                         /\ Unwrap(ret.first.val).bundle.macros[k].trigger = None

\* A document with a Ready macro and a Draft macro, both without trigger, was
\* loaded and compiled with one warning.
C27_Witness ==
  /\ arg.op = "compile" /\ arg.n = 1 /\ IsSome(parse_config_str(arg.text))
  /\ LET config == Unwrap(parse_config_str(arg.text))
     IN \E x, y \in DOMAIN config.macros :
          /\ config.macros[x].status = "Ready" /\ config.macros[x].trigger = None
          /\ config.macros[y].status = "Draft" /\ config.macros[y].trigger = None
  /\ ret.loaded.ok /\ ret.first.ok
  /\ Len(Unwrap(ret.loaded.val).diagnostics) = 1
  /\ Len(Unwrap(ret.first.val).bundle.macros) = 1

\* The diagnostics of a list that report note `number` as already assigned.
DuplicateNoteDiagnostics(diagnostics, number) ==
  {i \in 1..Len(diagnostics) :
     /\ Len(diagnostics[i].message) = 3
     /\ diagnostics[i].message[1] = "Note already assigned to macro"
     /\ diagnostics[i].message[2] = ToString(number)}

\* The macros of a document whose trigger is note `number`.
MacrosOnNote(config, number) ==
  {m \in DOMAIN config.macros : config.macros[m].trigger = Some(number)}

\* C28: k >= 2 macros on one in-range note get exactly k-1 duplicate-trigger
\* diagnostics for that note, all Warnings; in some visiting order of the k
\* macros every macro but the first has one, naming a macro visited before it.
C28_DuplicateNotesWarn ==
  (arg.op = "compile" /\ arg.n = 1 /\ IsSome(parse_config_str(arg.text))) =>
     LET config == Unwrap(parse_config_str(arg.text))
         diagnostics == ReturnedDiagnostics(ret.loaded)
     IN \A number \in 0..MaxNote :
          LET sharing == MacrosOnNote(config, number)
              k == Cardinality(sharing)
              found == DuplicateNoteDiagnostics(diagnostics, number)
          IN k >= 2 =>
               /\ Cardinality(found) = k - 1
               /\ \A i \in found : diagnostics[i].severity = "Warning"
               /\ \E visited \in Perms(sharing) : \E at \in [2..k -> found] :
                    /\ \A j \in 2..k : \A h \in 2..k : j < h => at[j] < at[h]
                    /\ \A j \in 2..k :
                         /\ diagnostics[at[j]].path = <<"macros", visited[j], "trigger">>
                         /\ \E h \in 1..(j - 1) : diagnostics[at[j]].message[3] = visited[h]

\* Three macros on note 60, one of them a Draft, were loaded with two
\* duplicate-trigger warnings.
C28_Witness ==
  /\ arg.op = "compile" /\ arg.n = 1 /\ IsSome(parse_config_str(arg.text))
  /\ Cardinality(MacrosOnNote(Unwrap(parse_config_str(arg.text)), 60)) = 3
  /\ \E m \in MacrosOnNote(Unwrap(parse_config_str(arg.text)), 60) :
       Unwrap(parse_config_str(arg.text)).macros[m].status = "Draft"
  /\ ret.loaded.ok
  /\ Cardinality(DuplicateNoteDiagnostics(ReturnedDiagnostics(ret.loaded), 60)) = 2

\* An execution call has returned.
ExecutionReturned == arg.op = "execute" /\ arg.n >= 2

\* The macro id an execution call came down to: the id passed, or the id the
\* note is mapped to; None for a note that is not mapped.
CalledId ==
  IF ret.call = "execute_macro" THEN Some(ret.id)
  ELSE IF ret.note \in DOMAIN ret.before.triggers
         THEN Some(ret.before.triggers[ret.note])
         ELSE None

\* C29: execute_macro with a known id performs the macro's steps in list order,
\* once each, leaves last_actions equal to the step list and returns true; an
\* unknown id, or a note that is not mapped, returns false, performs nothing and
\* leaves last_actions as it was.  Nothing else of the Executor changes.
C29_ExecuteRunsStepsInOrder ==
  ExecutionReturned =>
    /\ executor.macros = ret.before.macros
    /\ executor.triggers = ret.before.triggers
    /\ IF IsSome(CalledId) /\ Unwrap(CalledId) \in DOMAIN ret.before.macros
         THEN LET steps == ret.before.macros[Unwrap(CalledId)].steps
              IN /\ ret.returned
                 /\ Len(ret.performed) = Len(steps)
                 /\ \A k \in 1..Len(steps) :
                      /\ steps[k].type = "keystroke" =>
                           /\ ret.performed[k].do = "send_keystroke"
                           /\ ret.performed[k].keys = steps[k].keys
                      /\ steps[k].type = "pause" =>
                           /\ ret.performed[k].do = "sleep"
                           /\ ret.performed[k].ms = steps[k].ms
                 /\ executor.last_actions = steps
         ELSE /\ ~ret.returned
              /\ ret.performed = <<>>
              /\ executor.last_actions = ret.before.last_actions

\* A two-step macro was run on an Executor whose last_actions held the log of
\* an earlier run.
C29_Witness ==
  /\ ExecutionReturned
  /\ ret.call = "execute_macro"
  /\ ret.returned
  /\ Len(ret.performed) = 2
  /\ ret.before.last_actions # <<>>
  /\ ret.before.last_actions # executor.last_actions

\* An unknown id was passed to an Executor whose last_actions held a log.
C29_WitnessUnknown ==
  /\ ExecutionReturned
  /\ ret.call = "execute_macro"
  /\ ret.id \notin DOMAIN ret.before.macros
  /\ ~ret.returned
  /\ executor.last_actions # <<>>

\* C30: an Err notification taken by the watch task, in Idle or in Debouncing,
\* leaves the task listening with the debounce timer armed.
C30_Orig ==
  [][(/\ wpc = "recv"
      /\ notifyQ # <<>>
      /\ ~Head(notifyQ).ok
      /\ Len(notifyQ') < Len(notifyQ))
        => (wpc' = "recv" /\ IsSome(deadline'))]_vars

\* C31: an Err notification taken by the watch task never arms or re-arms the
\* debounce timer: the deadline is after it what it was before.
C31_Orig ==
  [][(/\ wpc = "recv"
      /\ notifyQ # <<>>
      /\ ~Head(notifyQ).ok
      /\ Len(notifyQ') < Len(notifyQ))
        => deadline' = deadline]_vars

\* C32: the stored Document and the stored bundle derive from one source text:
\* the text whose hash is compiled.bundle.header.source_hash parses to
\* loaded.config.
C32_Orig ==
  \A t \in Texts :
    (xxh3_64(t) = app.compiled.bundle.header.source_hash /\ IsSome(parse_config_str(t)))
      => app.loaded.config = Unwrap(parse_config_str(t))

\* C33: before shutdown the listener task never leaves its select loop.
C33_Orig == ~down => pc["listener"] # "exited"

\* The mutexes task t holds.
HeldBy(t) ==
  {l \in {"state", "midi", "console", "executor"} :
     CASE l = "state" -> stateLock = t
       [] l = "midi" -> midiLock = t
       [] l = "console" -> consoleLock = t
       [] OTHER -> execLock = t}

\* Task t stands at a lock().await.
WaitsForLock(t) ==
  CASE t = "watch" -> wpc = "lock"
    [] t = "listener" ->
         \/ pc["listener"] \in {"clone", "dispatch"}
         \/ fan.owner = "listener" /\ fan.pc \in {"midi_lock", "console_lock", "exec_lock"}
    [] OTHER -> pc["api"] = "dispatch"

\* C34: after initialization a task that waits for a mutex holds none, and no
\* task ever holds two.
C34_NoLockHeldWhileWaiting ==
  InitDone =>
    \A t \in {"watch", "listener", "api"} :
      /\ WaitsForLock(t) => HeldBy(t) = {}
      /\ Cardinality(HeldBy(t)) <= 1

\* The listener waits for the Executor mutex in its fan-out while a trigger_midi
\* call holds it, and the watch task holds the AppState mutex.
C34_Witness ==
  /\ InitDone
  /\ fan.owner = "listener" /\ fan.pc = "exec_lock"
  /\ execLock = "api"
  /\ stateLock = "watch"

\* C35: the reload whose bundle a consumer holds never goes back to an earlier
\* one, and a fan-out that starts is given the snapshot the state holds at that
\* moment.
C35_ConsumersFollowPublicationOrder ==
  [][/\ midi'.gen >= midi.gen
     /\ console'.gen >= console.gen
     /\ executor'.gen >= executor.gen
     /\ (fan.pc = "idle" /\ fan'.pc # "idle") => fan'.cache = Some(app.compiled)]_vars

\* The consumers hold the bundle of the second reload while the Reloaded event
\* of that reload is still waiting: the fan-out for the first event read the
\* snapshot of the second.
C35_Witness ==
  /\ midi.gen = 2 /\ console.gen = 2 /\ executor.gen = 2
  /\ app.compiled.gen = 2
  /\ reloadQ # <<>> /\ Head(reloadQ).tag = "Reloaded"
  /\ fan.pc = "idle"

\* The tasks inside execute_macro.
Executing == {t \in Tasks : pc[t] = "running"}

\* C36: at most one macro execution is in progress; the task that executes holds
\* the Executor mutex from dispatch to the end of the last step, and no fan-out
\* updates the Executor meanwhile.
C36_OneExecutionAtATime ==
  /\ [](/\ Cardinality(Executing) <= 1
        /\ \A t \in Executing : execLock = t /\ fan.pc # "exec_apply")
  /\ [][\A t \in Executing :
          /\ execLock' # execLock => (pc'[t] # "running" /\ execLock' = "none")
          /\ executor'.macros = executor.macros
          /\ executor'.triggers = executor.triggers]_vars

\* A trigger_midi execution stands between its keystroke and its pause while the
\* listener waits for the Executor mutex to dispatch a MIDI event.
C36_Witness ==
  /\ pc["api"] = "running"
  /\ exe["api"].idx = 1
  /\ Len(executor.macros[exe["api"].id].steps) = 2
  /\ pc["listener"] = "dispatch"

\* A call has applied a cache to the Executor: the cache applied last.
AppliedCache ==
  IF arg.op = "apply" THEN arg.caches[arg.n] ELSE arg.caches[1]

\* C37: after apply_cache(c) every entry of the trigger table names a macro of
\* the macro table whose trigger is that note, every note some macro of c uses
\* has an entry (one, also when macros share the note), and the macro table
\* holds exactly the entries of c under their ids.
C37_TablesMatchCache ==
  (arg.op \in {"apply", "execute"} /\ arg.n >= 1) =>
    LET entries == {AppliedCache.bundle.macros[k] : k \in 1..Len(AppliedCache.bundle.macros)}
    IN /\ \A n \in DOMAIN executor.triggers :
            /\ executor.triggers[n] \in DOMAIN executor.macros
            /\ executor.macros[executor.triggers[n]].trigger = Some(n)
       /\ \A e \in entries : IsSome(e.trigger) => Unwrap(e.trigger) \in DOMAIN executor.triggers
       /\ {executor.macros[id] : id \in DOMAIN executor.macros} = entries
       /\ \A id \in DOMAIN executor.macros : executor.macros[id].id = id

\* A cache whose two macros share a note has replaced a cache with another
\* trigger: one entry, for the shared note.
C37_Witness ==
  /\ arg.op = "apply" /\ arg.n = 2
  /\ Cardinality(DOMAIN executor.macros) = 2
  /\ DOMAIN executor.triggers = {60}
  /\ \E k \in 1..Len(arg.caches[1].bundle.macros) :
       arg.caches[1].bundle.macros[k].trigger = Some(61)

\* A step a runtime can perform: a keystroke with at least one key and no blank
\* key, or a pause longer than 0 ms.
RuntimeSafeStep(step) ==
  IF step.type = "keystroke"
    THEN step.keys # <<>> /\ \A k \in 1..Len(step.keys) : Trim(step.keys[k]) # ""
    ELSE step.ms > 0

\* Every macro entry of a bundle has runtime-safe steps and, if any, a trigger
\* number in 0..127.
RuntimeSafe(bundle) ==
  \A k \in 1..Len(bundle.macros) :
    /\ \A i \in 1..Len(bundle.macros[k].steps) : RuntimeSafeStep(bundle.macros[k].steps[i])
    /\ IsSome(bundle.macros[k].trigger) => Unwrap(bundle.macros[k].trigger) \in 0..MaxNote

\* C38: every macro entry of a successfully compiled bundle is runtime-safe.
C38_CompiledMacrosRuntimeSafe ==
  (arg.op = "compile" /\ arg.n = 1) =>
    /\ ret.first.ok => RuntimeSafe(Unwrap(ret.first.val).bundle)
    /\ ret.second.ok => RuntimeSafe(Unwrap(ret.second.val).bundle)

\* A document with a Draft macro that has a blank key or a pause of 0 ms was
\* compiled into a bundle with its Ready macro.
C38_Witness ==
  /\ arg.op = "compile" /\ arg.n = 1 /\ IsSome(parse_config_str(arg.text))
  /\ \E m \in DOMAIN Unwrap(parse_config_str(arg.text)).macros :
       \E i \in 1..Len(Unwrap(parse_config_str(arg.text)).macros[m].steps) :
         ~RuntimeSafeStep(Unwrap(parse_config_str(arg.text)).macros[m].steps[i])
  /\ ret.first.ok
  /\ Len(Unwrap(ret.first.val).bundle.macros) = 1
  /\ Len(Unwrap(ret.first.val).bundle.macros[1].steps) = 2

=============================================================================
